---- MODULE Spec2Model ----
(***************************************************************************)
(* SolarSync job pipeline: the Supervisor's routing rules, the six step    *)
(* agents, the workflow graph that connects them, the job creation         *)
(* request and the weather re-entry, for one job.                           *)
(*                                                                         *)
(* Log messages are kept as the literal f-string templates of the agents   *)
(* (placeholders written <id>, <e>, ...).  The Supervisor's substring      *)
(* tests are evaluated on these texts through PhrasesIn; interpolated      *)
(* values (job ids, exception texts) are taken not to contain any of the   *)
(* routing phrases.                                                        *)
(***************************************************************************)
EXTENDS Integers, Sequences, FiniteSets, TLC

VARIABLES
  written,    \* call sites of the build that behave as they are written
  roster,     \* technician rows the persistence layer holds
  state,      \* the JobState threaded through the run in flight
  pc,         \* position of the engine / of the supervisor harness
  node,       \* node the engine is about to execute, or executed last
  ranNode,    \* node that ran before the last Supervisor call
  retNode,    \* value the Supervisor returned last
  entry,      \* entry point of the run in flight
  outcome,    \* how the run ended: "none", "END", "error" or "raised"
  executed,   \* nodes executed by the run in flight, in order
  faults,     \* TRUE once a collaborator call of the run has failed
  db,         \* the job record and the number of prediction records
  store,      \* State Store entry of the job
  now,        \* wall clock, minutes
  effects,    \* external calls made by the agent invocation that ran last
  result,     \* what the last call of calculate_sizing returned
  records,    \* the job records of the persistence layer, by job id
  stores,     \* the State Store: the entry of key job_state:{job_id}, by job id
  runs        \* the request handler and the scheduler thread, each with its run

vars == <<written, roster, state, pc, node, ranNode, retNode, entry, outcome,
          executed, faults, db, store, now, effects, result, records, stores, runs>>

\* the variables the pipeline actions leave alone
others == <<result, records, stores, runs>>

----------------------------------------------------------------------------
(* Bounds *)

\* longest event log the supervisor harness draws
MaxLog == 2
\* last clock value, minutes
MaxTime == 30
\* clock step, minutes
TickMinutes == 15

----------------------------------------------------------------------------
(* Node names and the END signal *)

JOB_CREATOR == "job_creator"
SIZING == "sizing_agent"
TRIAGE == "ai_prediction_agent"
ASSIGN == "technician_assignment_agent"
NOTIFY == "notification_agent"
WEATHER == "weather_update_agent"
SUPERVISOR == "supervisor_agent"
END == "END"

Nodes == {JOB_CREATOR, SIZING, TRIAGE, ASSIGN, NOTIFY, WEATHER}

----------------------------------------------------------------------------
(* Message texts written by the agents *)

M_CREATE_SKIP == "Skipping job creation: missing required fields (description or system_type)"
M_CREATE_FAIL == "Failed to create job: <e>"
\* str(e) of a failed INSERT quotes the statement and with it the columns
\* created_by and date_created
M_CREATE_FAIL_SQL == "Failed to create job: <e> [SQL: INSERT INTO jobs (..., date_created, ...)]"
M_CREATED == "Job <id> created"
M_SIZING_SKIP == "Skipping sizing: missing required fields (system_type, appliances, position, or job_id)"
M_SIZING_CALC_FAIL == "Sizing calculation failed: <e>"
M_JOB_NOT_FOUND == "Job <id> not found in database"
M_DB_FAIL == "Database update failed: <e>"
M_SIZED == "Sizing completed for job <id>"
M_TRIAGE_SKIP == "Skipping AI predictions: missing required fields (description, system_type, or job_id)"
M_TRIAGE_FAIL == "AI prediction failed: <e>"
M_TRIAGE_KEYS == "AI prediction missing required keys: <keys>"
M_TRIAGED == "AI predictions completed for job <id>"
M_ASSIGN_SKIP == "Skipping technician assignment: missing technician_id or job_id"
M_TECH_NOT_FOUND == "Technician <tid> not found"
M_ASSIGNED == "Technician <name> assigned to job <id>"
M_NOTIFY_SKIP == "Skipping notification: missing technician_id or job_id"
M_NO_PHONE == "Technician <tid> has no phone number"
M_SMS_SENT == "SMS sent for job <id>"
M_SMS_ATTEMPT == "SMS attempt <n> failed: <e>"
M_MAX_RETRIES == "Max retries reached, SMS failed"
M_WEATHER_SKIP == "Skipping weather update: missing position or job_id"
M_TOO_SOON == "Skipping weather update: too soon"
M_BAD_CHECK == "Invalid last_weather_check format: <e>"
M_FETCH_FAIL == "Failed to fetch weather data: <e>"
M_INITIAL == "Initial weather check: peak_sun_hours = <v>"
M_TRIGGER == "peak_sun_hours changed by <p>% to <v>, triggering re-sizing"
M_UNCHANGED == "peak_sun_hours unchanged: <v>"
M_NO_MESSAGES == "No messages in state, ending workflow"

\* phrases the Supervisor looks for
P_TRIGGER == "triggering re-sizing"
P_SMS_SENT == "SMS sent"
P_CREATED == "created"
P_SIZED == "Sizing completed"
P_TRIAGED == "AI predictions completed"
P_ASSIGNED == "assigned"
P_MAX_RETRIES == "Max retries reached"

\* the routing phrases that occur as substrings of a message text
PhrasesIn(message) ==
  CASE message = M_CREATED -> {P_CREATED}
    [] message = M_CREATE_FAIL_SQL -> {P_CREATED}
    [] message = M_SIZED -> {P_SIZED}
    [] message = M_TRIAGED -> {P_TRIAGED}
    [] message = M_ASSIGNED -> {P_ASSIGNED}
    [] message = M_SMS_SENT -> {P_SMS_SENT}
    [] message = M_MAX_RETRIES -> {P_MAX_RETRIES}
    [] message = M_TRIGGER -> {P_TRIGGER}
    [] OTHER -> {}

\* Python's `phrase in message`
Contains(message, phrase) == phrase \in PhrasesIn(message)

Msg(agent, message) == [agent |-> agent, message |-> message]

\* every entry some agent (or the Supervisor) can append
Entries ==
     {Msg(JOB_CREATOR, m) : m \in {M_CREATE_SKIP, M_CREATE_FAIL, M_CREATE_FAIL_SQL, M_CREATED}}
  \cup {Msg(SIZING, m) : m \in {M_SIZING_SKIP, M_SIZING_CALC_FAIL, M_JOB_NOT_FOUND, M_DB_FAIL, M_SIZED}}
  \cup {Msg(TRIAGE, m) : m \in {M_TRIAGE_SKIP, M_TRIAGE_FAIL, M_TRIAGE_KEYS, M_JOB_NOT_FOUND, M_DB_FAIL, M_TRIAGED}}
  \cup {Msg(ASSIGN, m) : m \in {M_ASSIGN_SKIP, M_TECH_NOT_FOUND, M_JOB_NOT_FOUND, M_DB_FAIL, M_ASSIGNED}}
  \cup {Msg(NOTIFY, m) : m \in {M_NOTIFY_SKIP, M_JOB_NOT_FOUND, M_NO_PHONE, M_SMS_SENT, M_SMS_ATTEMPT, M_MAX_RETRIES}}
  \cup {Msg(WEATHER, m) : m \in {M_WEATHER_SKIP, M_TOO_SOON, M_BAD_CHECK, M_FETCH_FAIL, M_INITIAL, M_TRIGGER, M_UNCHANGED}}
  \cup {Msg(SUPERVISOR, M_NO_MESSAGES)}

----------------------------------------------------------------------------
(* JobState *)

Priorities == {"none", "low", "medium", "high"}

\* JobState as create_job builds it before any field is filled in;
\* has_messages is FALSE for a state built without the "messages" key, as
\* complete_job builds it (jobs.py 393)
EmptyState ==
  [has_messages |-> TRUE, job_id |-> 0, description |-> "", system_type |-> "", appliances |-> "none",
   position |-> "none", battery_type |-> "none", priority |-> "none",
   technician_id |-> "none", technician_name |-> "none", status |-> "none",
   sized |-> FALSE, peak_sun_hours |-> -1, last_peak_sun_hours |-> -1,
   last_weather_check |-> -1, messages |-> <<>>]

----------------------------------------------------------------------------
(* Supervisor *)

HasPhrase(messages, phrase) ==
  \E i \in 1..Len(messages) : Contains(messages[i].message, phrase)

\* the table on the last entry, rules of supervisor_agent.py 36-64
last_message_route(last_message) ==
  LET agent == last_message.agent
      message == last_message.message
  IN  IF agent = JOB_CREATOR /\ Contains(message, P_CREATED) THEN SIZING
      ELSE IF agent = SIZING /\ Contains(message, P_SIZED) THEN TRIAGE
      ELSE IF agent = TRIAGE /\ Contains(message, P_TRIAGED) THEN ASSIGN
      ELSE IF agent = ASSIGN /\ Contains(message, P_ASSIGNED) THEN NOTIFY
      ELSE IF agent = NOTIFY /\ (Contains(message, P_SMS_SENT) \/ Contains(message, P_MAX_RETRIES))
           THEN WEATHER
      ELSE IF agent = WEATHER
           THEN (IF Contains(message, P_TRIGGER) THEN SIZING ELSE END)
      ELSE END

\* the re-sizing condition with only the last entry examined
resizing_triggered_last_only(st) ==
  Contains(st.messages[Len(st.messages)].message, P_TRIGGER)

\* supervisor_agent.py 27: any entry holds the trigger phrase
resizing_triggered(st) == HasPhrase(st.messages, P_TRIGGER)

\* the urgent condition met only once an SMS has been sent
urgent_unnotified_inverted(st) ==
  st.priority = "high" /\ HasPhrase(st.messages, P_SMS_SENT)

\* supervisor_agent.py 32: priority high and no entry holds "SMS sent"
urgent_unnotified(st) ==
  st.priority = "high" /\ ~HasPhrase(st.messages, P_SMS_SENT)

\* supervisor_agent with the urgent-notification rule tried before the
\* re-sizing rule
supervisor_agent_urgent_first(st) ==
  IF ~st.has_messages THEN "KeyError"
  ELSE IF st.messages = <<>> THEN END
  ELSE IF urgent_unnotified(st) THEN NOTIFY
  ELSE IF resizing_triggered(st) THEN SIZING
  ELSE last_message_route(st.messages[Len(st.messages)])

\* value returned by supervisor_agent(state); "KeyError" when line 22
\* subscripts a state that has no "messages" key
supervisor_agent(st) ==
  IF ~st.has_messages THEN "KeyError"
  ELSE IF st.messages = <<>> THEN END
  ELSE IF resizing_triggered(st) THEN SIZING
  ELSE IF urgent_unnotified(st) THEN NOTIFY
  ELSE last_message_route(st.messages[Len(st.messages)])

\* the state supervisor_agent leaves behind (it appends on the empty-log branch)
supervisor_state(st) ==
  IF st.has_messages /\ st.messages = <<>>
  THEN [st EXCEPT !.messages = Append(@, Msg(SUPERVISOR, M_NO_MESSAGES))]
  ELSE st

----------------------------------------------------------------------------
(* Workflow graph *)

\* path maps in which notification_agent has no weather_update_agent key
Edges_no_weather ==
  [n \in Nodes |->
     CASE n = JOB_CREATOR -> {SIZING}
       [] n = SIZING -> {TRIAGE}
       [] n = TRIAGE -> {ASSIGN}
       [] n = ASSIGN -> {NOTIFY}
       [] n = NOTIFY -> {SIZING}
       [] n = WEATHER -> {SIZING}]

\* path maps of add_conditional_edges, without the "END" key every map holds
Edges ==
  [n \in Nodes |->
     CASE n = JOB_CREATOR -> {SIZING}
       [] n = SIZING -> {TRIAGE}
       [] n = TRIAGE -> {ASSIGN}
       [] n = ASSIGN -> {NOTIFY}
       [] n = NOTIFY -> {WEATHER, SIZING}
       [] n = WEATHER -> {SIZING}]

\* an engine that follows whatever name the Supervisor returns
follow_edge_unchecked(n, ret) == ret

\* the conditional edge after node n: the Supervisor's return value indexes
\* n's path map; a key the map does not hold raises KeyError
follow_edge(n, ret) ==
  IF ret = END THEN END
  ELSE IF ret \in Edges[n] THEN ret
  ELSE "KeyError"

----------------------------------------------------------------------------
(* Environment of a run *)

\* Call sites whose arguments do not match the callee defined in the
\* repository.  A site in `written` behaves as Python binds it (the call
\* raises before the callee runs); a site outside it reaches the callee.
\*   calculate_sizing   sizing_agent.py 31-35 passes no battery_type,
\*                      sizing_service.py 36-41 requires it
\*   technician_fields  technician_assignment_agent.py 45-46 reads
\*                      first_name/last_name, models/technician.py has name/login
\*   send_sms           notification_agent.py 52 passes to=, sms_service.py 11
\*                      names the parameter to_phone
\*   starting_node      weather.py 44-48 passes starting_node=, which
\*                      invoke_workflow (job_workflow.py 100) does not take
\*   job_completion     job_completion_agent.py 27 reads state.job_id on a
\*                      dict and lines 38-39 read db.func on a Session
CallSites ==
  {"calculate_sizing", "technician_fields", "send_sms", "starting_node", "job_completion"}

\* technician rows: none with the required skill; one with the skill but no
\* user row carrying a phone; one with the skill and a phone
Rosters == {"none", "tech", "tech_phone"}

\* peak-sun-hours readings, in hundredths of an hour
PSHValues == {500, 510, 530}

\* minutes between two weather checks (weather_update_agent.py 32)
WeatherInterval == 30

D_OFFLINE == "GRID TIE OFFLINE"
D_MAINTENANCE == "Routine maintenance"
D_OTHER == "Panel inspection"
Descriptions == {"", D_OFFLINE, D_MAINTENANCE, D_OTHER}
\* system_type values sizing accepts (sizing_service.py 89) and battery_type
\* values create_job and sizing accept (jobs.py 137, sizing_service.py 94)
valid_system_types == {"pure", "hybrid"}
valid_battery_types == {"lead_acid", "lithium_ion"}
\* the values the creation requests of the model carry
SystemTypes == {"", "hybrid"}
\* [] ; entries that all carry a rating ; an entry with neither power_w nor a default
ApplianceLists == {"none", "valid", "no_rating"}
BatteryTypes == {"lithium_ion"}

NoJob ==
  [exists |-> FALSE, status |-> "none", priority |-> "none", technician_id |-> "none",
   technician_name |-> "none", sized |-> FALSE, appliances |-> "none", predictions |-> 0,
   pending |-> 0]

\* db.commit(): the Prediction objects added to the session and not written
\* yet (pending) are written with the changes of the record
commit(d) == [d EXCEPT !.predictions = @ + d.pending, !.pending = 0]

\* db.rollback(), and the close of the session: what is pending is dropped
rollback(d) == [d EXCEPT !.pending = 0]

NoState == [EmptyState EXCEPT !.status = "absent"]

\* an entry put in front of the log instead of behind it
Log_in_front(st, agent, message) ==
  [st EXCEPT !.messages = <<Msg(agent, message)>> \o @]

\* state["messages"].append({"agent": agent, "message": message})
Log(st, agent, message) == [st EXCEPT !.messages = Append(@, Msg(agent, message))]

\* calls one invocation of notification_agent makes on send_sms and on
\* time.sleep; calls one invocation of weather_update_agent makes on
\* get_peak_sun_hours, and the reading the call returned (-1: none)
NoEffects == [sms_calls |-> 0, sleeps |-> 0, fetches |-> 0, reading |-> -1]

\* what one agent invocation leaves behind when it returns
Result(st, d, fault) ==
  [state |-> st, db |-> d, fault |-> fault, raised |-> FALSE, effects |-> NoEffects]

\* what it leaves behind when an exception leaves the agent
Raised(st, d) ==
  [state |-> st, db |-> d, fault |-> TRUE, raised |-> TRUE, effects |-> NoEffects]

----------------------------------------------------------------------------
(* Several jobs: records and State Store entries by job id, one run per     *)
(* thread                                                                   *)

JobIds == {1, 2}

\* the request handler running create_job and the scheduler thread running
\* run_weather_update_task
Workers == {"request", "scheduler"}

\* a thread with nothing in flight.  job: the job id the run works for (0: not
\* known yet); queue: the active jobs the sweep iterates; i: position in the
\* queue; path: how the re-entry in flight went; ended: job ids whose
\* re-entry has returned; paths: how each of them went; opened, closed:
\* sessions the re-entries acquired and released
NoRun ==
  [pc |-> "idle", kind |-> "none", job |-> 0, node |-> "none", state |-> EmptyState,
   outcome |-> "none", queue |-> <<>>, i |-> 0, path |-> "none", ended |-> <<>>,
   paths |-> <<>>, opened |-> 0, closed |-> 0]

\* no job, no stored state, no thread at work
JobsAtRest ==
  /\ records = [j \in JobIds |-> NoJob]
  /\ stores = [j \in JobIds |-> NoState]
  /\ runs = [w \in Workers |-> NoRun]

----------------------------------------------------------------------------
(* job_creator *)

\* "insert_fails": the INSERT is refused; "commit_fails": the session fails
\* without a statement; "broadcast_fails": the broadcast after the commit raises
job_creator_outcomes == {"ok", "insert_fails", "commit_fails", "broadcast_fails"}

\* job_creator putting the new id into the state before the record is committed
job_creator_early_id(st, d, o) ==
  IF st.description = "" \/ st.system_type = ""
  THEN Result(Log(st, JOB_CREATOR, M_CREATE_SKIP), d, FALSE)
  ELSE LET row == [NoJob EXCEPT !.exists = TRUE, !.status = "pending"]
           st1 == [st EXCEPT !.job_id = 1]
       IN  CASE o = "insert_fails" ->
                  Result(Log(st1, JOB_CREATOR, M_CREATE_FAIL_SQL), d, TRUE)
             [] o = "commit_fails" ->
                  Result(Log(st1, JOB_CREATOR, M_CREATE_FAIL), d, TRUE)
             [] o = "broadcast_fails" ->
                  Result(Log(st1, JOB_CREATOR, M_CREATE_FAIL), row, TRUE)
             [] OTHER ->
                  Result(Log([st1 EXCEPT !.status = "pending"],
                             JOB_CREATOR, M_CREATED), row, FALSE)

job_creator(st, d, o) ==
  IF st.description = "" \/ st.system_type = ""
  THEN Result(Log(st, JOB_CREATOR, M_CREATE_SKIP), d, FALSE)
  ELSE LET row == [NoJob EXCEPT !.exists = TRUE, !.status = "pending"]
       IN  CASE o = "insert_fails" ->
                  Result(Log(st, JOB_CREATOR, M_CREATE_FAIL_SQL), d, TRUE)
             [] o = "commit_fails" ->
                  Result(Log(st, JOB_CREATOR, M_CREATE_FAIL), d, TRUE)
             [] o = "broadcast_fails" ->
                  Result(Log(st, JOB_CREATOR, M_CREATE_FAIL), row, TRUE)
             [] OTHER ->
                  Result(Log([st EXCEPT !.job_id = 1, !.status = "pending"],
                             JOB_CREATOR, M_CREATED), row, FALSE)

----------------------------------------------------------------------------
(* Sizing *)

\* DEFAULT_APPLIANCE_POWER_RATINGS, watts (sizing_service.py 11-20)
DEFAULT_APPLIANCE_POWER_RATINGS ==
  [name \in {"lights", "tv", "deep_freezer", "laptop", "desktop", "phone_charging",
             "dispenser", "fridge"} |->
     CASE name = "lights" -> 7
       [] name = "tv" -> 100
       [] name = "deep_freezer" -> 350
       [] name = "laptop" -> 60
       [] name = "desktop" -> 150
       [] name = "phone_charging" -> 30
       [] name = "dispenser" -> 500
       [] name = "fridge" -> 300]

\* system configuration (sizing_service.py 23-32): voltages in fifths of a
\* volt (51.2 V = 256), efficiency and depth of discharge in tenths
SYSTEM_VOLTAGE_LE == 120
SYSTEM_VOLTAGE_LI == 240
INVERTER_EFFICIENCY == 9
AUTONOMY_DAYS == 1
LEAD_ACID_DOD == 7
LITHIUM_ION_DOD == 10
AVAILABLE_LEAD_ACID_BATTERY == [ah |-> 200, voltage |-> 60]
AVAILABLE_LITHIUM_ION_BATTERY == [ah |-> 150, voltage |-> 256]

\* math.ceil(n / d) for d > 0
Ceil(n, d) == (n \div d) + (IF n % d = 0 THEN 0 ELSE 1)

\* the appliance entries an appliance list of the model stands for; power_w
\* is -1 when the entry carries none
written_entries(appliances) ==
  CASE appliances = "none" -> <<>>
    [] appliances = "valid" ->
         <<[name |-> "fridge", power_w |-> 300, quantity |-> 1, runtime_hrs |-> 24],
           [name |-> "lights", power_w |-> -1, quantity |-> 10, runtime_hrs |-> 5]>>
    [] appliances = "no_rating" ->
         <<[name |-> "pump", power_w |-> -1, quantity |-> 1, runtime_hrs |-> 2]>>
    [] appliances = "small" ->
         <<[name |-> "tv", power_w |-> 100, quantity |-> 1, runtime_hrs |-> 2]>>
    [] appliances = "large" ->
         <<[name |-> "dispenser", power_w |-> -1, quantity |-> 4, runtime_hrs |-> 10]>>
    [] appliances = "zero_quantity" ->
         <<[name |-> "tv", power_w |-> 100, quantity |-> 0, runtime_hrs |-> 2]>>
    [] appliances = "negative_runtime" ->
         <<[name |-> "tv", power_w |-> 100, quantity |-> 1, runtime_hrs |-> -2]>>

\* the list the loop of lines 107-130 leaves in the caller's hands: line 120
\* writes the default rating into every entry without power_w that comes
\* before the first entry the loop refuses
after_loop(entries) ==
  LET unrated == {i \in 1..Len(entries) :
                    /\ entries[i].power_w = -1
                    /\ entries[i].name \notin DOMAIN DEFAULT_APPLIANCE_POWER_RATINGS}
  IN  [i \in 1..Len(entries) |->
         IF entries[i].power_w = -1 /\ \A u \in unrated : i < u
         THEN [entries[i] EXCEPT !.power_w = DEFAULT_APPLIANCE_POWER_RATINGS[entries[i].name]]
         ELSE entries[i]]

\* names of the lists that the loop changes, and of what it makes of them
RatedLists == [appliances \in {"valid", "large"} |->
                 IF appliances = "valid" THEN "valid_rated" ELSE "large_rated"]

\* the entries of an appliance list
appliance_entries(appliances) ==
  IF \E a \in DOMAIN RatedLists : RatedLists[a] = appliances
  THEN after_loop(written_entries(CHOOSE a \in DOMAIN RatedLists : RatedLists[a] = appliances))
  ELSE written_entries(appliances)

\* the caller's list once the loop of lines 107-130 has run through
list_after_sizing(appliances) ==
  IF appliances \in DOMAIN RatedLists THEN RatedLists[appliances] ELSE appliances

\* the loop of lines 107-130 from entry i on: the power and energy demand,
\* or ok = FALSE when an entry has neither power_w nor a default rating
RECURSIVE appliance_demand(_, _, _)
appliance_demand(entries, i, acc) ==
  IF i > Len(entries) THEN acc
  ELSE LET appliance == entries[i]
           power_w == IF appliance.power_w # -1 THEN appliance.power_w
                      ELSE IF appliance.name \in DOMAIN DEFAULT_APPLIANCE_POWER_RATINGS
                      THEN DEFAULT_APPLIANCE_POWER_RATINGS[appliance.name]
                      ELSE -1
           appliance_power_w == power_w * appliance.quantity
       IN  IF power_w = -1 THEN [acc EXCEPT !.ok = FALSE]
           ELSE appliance_demand(entries, i + 1,
                  [acc EXCEPT !.total_power_w = @ + appliance_power_w,
                              !.total_energy_wh = @ + appliance_power_w * appliance.runtime_hrs])

\* calculate_sizing: validation, then the weather reading; "raise" as the
\* reading stands for get_peak_sun_hours raising
calculate_sizing(system_type, appliances, position, battery_type, reading) ==
  IF system_type \notin valid_system_types THEN "ValueError"
  ELSE IF battery_type \notin valid_battery_types THEN "ValueError"
  ELSE IF position # "latlon" THEN "ValueError"
  ELSE IF appliance_entries(appliances) = <<>> THEN "ValueError"
  ELSE IF ~appliance_demand(appliance_entries(appliances), 1,
                            [ok |-> TRUE, total_power_w |-> 0, total_energy_wh |-> 0]).ok
       THEN "ValueError"
  ELSE IF reading = -1 THEN "raise"
  ELSE "ok"

\* the selection with the capacity of the chosen chemistry kept for either
\* system type
selected_capacity_wh_any_type(system_type, battery_type, la_capacity_wh, li_capacity_wh) ==
  IF battery_type = "lead_acid" THEN la_capacity_wh ELSE li_capacity_wh

\* battery_capacity_kwh of lines 166 and 174
selected_capacity_wh(system_type, battery_type, la_capacity_wh, li_capacity_wh) ==
  IF battery_type = "lead_acid"
  THEN (IF system_type = "hybrid" THEN la_capacity_wh ELSE 0)
  ELSE (IF system_type = "hybrid" THEN li_capacity_wh ELSE 0)

\* the battery entries of the dictionary calculate_sizing returns (lines
\* 139-180, 199, 211-238); energies in Wh, so battery_capacity_kwh * 1000
\* is battery_capacity_wh
calculate_sizing_result(system_type, appliances, battery_type, reading) ==
  LET demand == appliance_demand(appliance_entries(appliances), 1,
                                 [ok |-> TRUE, total_power_w |-> 0, total_energy_wh |-> 0])
      \* lines 143-151
      la_series == Ceil(SYSTEM_VOLTAGE_LE, AVAILABLE_LEAD_ACID_BATTERY.voltage)
      la_parallel == Ceil(demand.total_energy_wh * 10 * 5 * 10 * AUTONOMY_DAYS,
                          INVERTER_EFFICIENCY * SYSTEM_VOLTAGE_LE * LEAD_ACID_DOD
                            * la_series * AVAILABLE_LEAD_ACID_BATTERY.ah)
      la_required == la_series * la_parallel
      la_capacity_wh == (la_required * AVAILABLE_LEAD_ACID_BATTERY.ah
                           * AVAILABLE_LEAD_ACID_BATTERY.voltage) \div 5
      \* lines 154-162
      li_series == Ceil(SYSTEM_VOLTAGE_LI, AVAILABLE_LITHIUM_ION_BATTERY.voltage)
      li_parallel == Ceil(demand.total_energy_wh * 10 * 5 * 10 * AUTONOMY_DAYS,
                          INVERTER_EFFICIENCY * SYSTEM_VOLTAGE_LI * LITHIUM_ION_DOD
                            * li_series * AVAILABLE_LITHIUM_ION_BATTERY.ah)
      li_required == li_series * li_parallel
      li_capacity_wh == (li_required * AVAILABLE_LITHIUM_ION_BATTERY.ah
                           * AVAILABLE_LITHIUM_ION_BATTERY.voltage) \div 5
      hybrid == (system_type = "hybrid")
      \* lines 165-180
      battery_capacity_wh ==
        selected_capacity_wh(system_type, battery_type, la_capacity_wh, li_capacity_wh)
      lead_acid == IF battery_type = "lead_acid"
                   THEN [required |-> la_required, series |-> la_series, parallel |-> la_parallel]
                   ELSE [required |-> 0, series |-> 0, parallel |-> 0]
      lithium_ion == IF battery_type = "lead_acid"
                     THEN [required |-> 0, series |-> 0, parallel |-> 0]
                     ELSE [required |-> li_required, series |-> li_series, parallel |-> li_parallel]
  IN  [status |-> "ok",
       load_demand_wh |-> demand.total_energy_wh,
       power_demand_w |-> demand.total_power_w,
       battery_capacity_wh |-> battery_capacity_wh,
       battery_cost_ksh |-> battery_capacity_wh * 5,
       peak_sun_hours |-> reading,
       lead_acid_batteries_required |-> IF hybrid THEN lead_acid.required ELSE 0,
       lithium_ion_batteries_required |-> IF hybrid THEN lithium_ion.required ELSE 0,
       lead_acid_batteries_series |-> IF hybrid THEN lead_acid.series ELSE 0,
       lead_acid_batteries_parallel |-> IF hybrid THEN lead_acid.parallel ELSE 0,
       lithium_ion_batteries_series |-> IF hybrid THEN lithium_ion.series ELSE 0,
       lithium_ion_batteries_parallel |-> IF hybrid THEN lithium_ion.parallel ELSE 0,
       battery_type |-> battery_type]

\* no call of calculate_sizing yet
NoResult == [status |-> "none"]

sizing_agent_outcomes ==
  [reading : PSHValues \cup {-1},
   db : {"ok", "not_found", "commit_fails", "broadcast_fails"}]

\* sizing_agent returning from its field check without an entry of its own
sizing_agent_silent_skip(st, d, o, sites) ==
  IF st.system_type = "" \/ st.appliances = "none" \/ st.position = "none" \/ st.job_id = 0
  THEN Result(st, d, FALSE)
  ELSE LET sizing_result ==
             IF "calculate_sizing" \in sites THEN "TypeError"
             ELSE calculate_sizing(st.system_type, st.appliances, st.position,
                                   st.battery_type, o.reading)
           \* the list of the state is the one calculate_sizing works on
           st1 == IF sizing_result \in {"ok", "raise"}
                  THEN [st EXCEPT !.appliances = list_after_sizing(@)]
                  ELSE st
       IN  IF sizing_result # "ok"
           THEN Result(Log(st1, SIZING, M_SIZING_CALC_FAIL), d, sizing_result = "raise")
           ELSE LET st2 == [st1 EXCEPT !.sized = TRUE, !.peak_sun_hours = o.reading]
                    d2 == commit([d EXCEPT !.sized = TRUE, !.appliances = st2.appliances])
                IN  CASE o.db = "not_found" \/ ~d.exists ->
                           Result(Log(st2, SIZING, M_JOB_NOT_FOUND), d, TRUE)
                      [] o.db = "commit_fails" ->
                           Result(Log(st2, SIZING, M_DB_FAIL), rollback(d), TRUE)
                      [] o.db = "broadcast_fails" ->
                           Result(Log(st2, SIZING, M_DB_FAIL), d2, TRUE)
                      [] OTHER ->
                           Result(Log(st2, SIZING, M_SIZED), d2, FALSE)

sizing_agent(st, d, o, sites) ==
  IF st.system_type = "" \/ st.appliances = "none" \/ st.position = "none" \/ st.job_id = 0
  THEN Result(Log(st, SIZING, M_SIZING_SKIP), d, FALSE)
  ELSE LET sizing_result ==
             IF "calculate_sizing" \in sites THEN "TypeError"
             ELSE calculate_sizing(st.system_type, st.appliances, st.position,
                                   st.battery_type, o.reading)
           \* the list of the state is the one calculate_sizing works on
           st1 == IF sizing_result \in {"ok", "raise"}
                  THEN [st EXCEPT !.appliances = list_after_sizing(@)]
                  ELSE st
       IN  IF sizing_result # "ok"
           THEN Result(Log(st1, SIZING, M_SIZING_CALC_FAIL), d, sizing_result = "raise")
           ELSE LET st2 == [st1 EXCEPT !.sized = TRUE, !.peak_sun_hours = o.reading]
                    d2 == commit([d EXCEPT !.sized = TRUE, !.appliances = st2.appliances])
                IN  CASE o.db = "not_found" \/ ~d.exists ->
                           Result(Log(st2, SIZING, M_JOB_NOT_FOUND), d, TRUE)
                      [] o.db = "commit_fails" ->
                           Result(Log(st2, SIZING, M_DB_FAIL), rollback(d), TRUE)
                      [] o.db = "broadcast_fails" ->
                           Result(Log(st2, SIZING, M_DB_FAIL), d2, TRUE)
                      [] OTHER ->
                           Result(Log(st2, SIZING, M_SIZED), d2, FALSE)

----------------------------------------------------------------------------
(* Triage *)

\* "offline" / "maintenance" in description.lower()
priority_of(description) ==
  IF description = D_OFFLINE THEN "high"
  ELSE IF description = D_MAINTENANCE THEN "medium"
  ELSE "low"

\* predict_job_details: priority and technician candidate; the fixed
\* fallback when the roster query fails
predict_job_details(description, ros, query) ==
  IF query = "fails"
  THEN [priority |-> "medium", technician_id |-> "none"]
  ELSE [priority |-> priority_of(description),
        technician_id |-> IF ros = "none" THEN "none" ELSE "t1"]

\* the fixed prediction of lines 107-114; hours in hundredths
FallbackPrediction ==
  [priority |-> "medium", duration_hours |-> 400, labor_ksh |-> 4000, transport_ksh |-> 800,
   technician_id |-> "none", diagnosis |-> <<"System inspection">>]

\* what lines 45-99 compute; equipment_cost_k is the sum of the three
\* equipment costs in thousands of KSh, the diagnosis is kept as its parts
computed_prediction(description, system_type, battery_type, equipment_cost_k, ros) ==
  LET is_offline == (description = D_OFFLINE)
      base_hours == (IF system_type = "hybrid" THEN 600 ELSE 400)
                      + (IF is_offline THEN 200 ELSE 0)
      duration_hours == IF battery_type = "lithium_ion" THEN (base_hours * 9) \div 10
                        ELSE IF battery_type = "lead_acid" THEN (base_hours * 11) \div 10
                        ELSE base_hours
      labor_factor == IF 100 + equipment_cost_k < 200 THEN 100 + equipment_cost_k ELSE 200
      transport_factor == IF 200 + equipment_cost_k < 300 THEN 200 + equipment_cost_k ELSE 300
      base_diagnosis == IF is_offline THEN "Check inverter wiring"
                        ELSE IF description = D_MAINTENANCE THEN "Routine maintenance check"
                        ELSE "System inspection"
  IN  [priority |-> priority_of(description),
       duration_hours |-> duration_hours,
       labor_ksh |-> (duration_hours * labor_factor) \div 10,
       transport_ksh |-> ((IF is_offline THEN 1200 ELSE 800) * transport_factor) \div 200,
       technician_id |-> IF ros = "none" THEN "none" ELSE "t1",
       diagnosis |-> IF battery_type = "lead_acid"
                     THEN <<base_diagnosis, "inspect Lead Acid battery connections">>
                     ELSE IF battery_type = "lithium_ion"
                     THEN <<base_diagnosis, "verify Lithium-Ion battery management system">>
                     ELSE <<base_diagnosis>>]

\* the dictionary returned with the computed priority kept when a step fails
prediction_of_partial(description, system_type, battery_type, equipment_cost_k, ros, query) ==
  IF query = "fails"
  THEN [FallbackPrediction EXCEPT !.priority = priority_of(description)]
  ELSE computed_prediction(description, system_type, battery_type, equipment_cost_k, ros)

\* the dictionary predict_job_details returns: what the try block computed,
\* or the fallback of the except block when the roster query raises
prediction_of(description, system_type, battery_type, equipment_cost_k, ros, query) ==
  IF query = "fails"
  THEN FallbackPrediction
  ELSE computed_prediction(description, system_type, battery_type, equipment_cost_k, ros)

ai_prediction_agent_outcomes ==
  [query : {"ok", "fails"},
   db : {"ok", "not_found", "commit_fails", "broadcast_fails"}]

\* ai_prediction_agent writing the Prediction before it looks the job up
ai_prediction_agent_early_commit(st, d, o, ros) ==
  IF st.description = "" \/ st.system_type = "" \/ st.job_id = 0
  THEN Result(Log(st, TRIAGE, M_TRIAGE_SKIP), d, FALSE)
  ELSE LET prediction == predict_job_details(st.description, ros, o.query)
           st2 == [st EXCEPT !.priority = prediction.priority,
                             !.technician_id = prediction.technician_id]
           \* db.add(db_prediction), line 70
           added == [d EXCEPT !.pending = @ + 1]
           d2 == commit([added EXCEPT !.priority = prediction.priority,
                                      !.technician_id = prediction.technician_id])
           qf == (o.query = "fails")
       IN  CASE o.db = "not_found" \/ ~d.exists ->
                  Result(Log(st2, TRIAGE, M_JOB_NOT_FOUND), commit(added), TRUE)
             [] o.db = "commit_fails" ->
                  Result(Log(st2, TRIAGE, M_DB_FAIL), rollback(added), TRUE)
             [] o.db = "broadcast_fails" ->
                  Result(Log(st2, TRIAGE, M_DB_FAIL), d2, TRUE)
             [] OTHER ->
                  Result(Log(st2, TRIAGE, M_TRIAGED), d2, qf)

ai_prediction_agent(st, d, o, ros) ==
  IF st.description = "" \/ st.system_type = "" \/ st.job_id = 0
  THEN Result(Log(st, TRIAGE, M_TRIAGE_SKIP), d, FALSE)
  ELSE LET prediction == predict_job_details(st.description, ros, o.query)
           st2 == [st EXCEPT !.priority = prediction.priority,
                             !.technician_id = prediction.technician_id]
           \* db.add(db_prediction), line 70
           added == [d EXCEPT !.pending = @ + 1]
           d2 == commit([added EXCEPT !.priority = prediction.priority,
                                      !.technician_id = prediction.technician_id])
           qf == (o.query = "fails")
       IN  CASE o.db = "not_found" \/ ~d.exists ->
                  Result(Log(st2, TRIAGE, M_JOB_NOT_FOUND), added, TRUE)
             [] o.db = "commit_fails" ->
                  Result(Log(st2, TRIAGE, M_DB_FAIL), rollback(added), TRUE)
             [] o.db = "broadcast_fails" ->
                  Result(Log(st2, TRIAGE, M_DB_FAIL), d2, TRUE)
             [] OTHER ->
                  Result(Log(st2, TRIAGE, M_TRIAGED), d2, qf)

----------------------------------------------------------------------------
(* Technician assignment *)

\* "query_fails": the technician query of line 30, outside any try, raises
technician_assignment_agent_outcomes ==
  [technician : {"found", "missing", "query_fails"},
   db : {"ok", "not_found", "commit_fails", "broadcast_fails"}]

\* technician_assignment_agent blanking the technician name when it skips
technician_assignment_agent_blanking(st, d, o, sites) ==
  IF st.technician_id = "none" \/ st.job_id = 0
  THEN Result(Log([st EXCEPT !.technician_name = "unassigned"], ASSIGN, M_ASSIGN_SKIP),
              d, FALSE)
  ELSE IF o.technician = "query_fails"
  THEN Raised(st, d)
  ELSE IF o.technician = "missing"
  THEN Result(Log(st, ASSIGN, M_TECH_NOT_FOUND), d, TRUE)
  ELSE LET d2 == commit([d EXCEPT !.technician_name = "name"])
       IN  CASE o.db = "not_found" \/ ~d.exists ->
                  Result(Log(st, ASSIGN, M_JOB_NOT_FOUND), d, TRUE)
             [] "technician_fields" \in sites ->
                  Result(Log(st, ASSIGN, M_DB_FAIL), rollback(d), FALSE)
             [] o.db = "commit_fails" ->
                  Result(Log(st, ASSIGN, M_DB_FAIL), rollback(d), TRUE)
             [] o.db = "broadcast_fails" ->
                  Result(Log(st, ASSIGN, M_DB_FAIL), d2, TRUE)
             [] OTHER ->
                  Result(Log([st EXCEPT !.technician_name = "name"], ASSIGN, M_ASSIGNED),
                         d2, FALSE)

technician_assignment_agent(st, d, o, sites) ==
  IF st.technician_id = "none" \/ st.job_id = 0
  THEN Result(Log(st, ASSIGN, M_ASSIGN_SKIP), d, FALSE)
  ELSE IF o.technician = "query_fails"
  THEN Raised(st, d)
  ELSE IF o.technician = "missing"
  THEN Result(Log(st, ASSIGN, M_TECH_NOT_FOUND), d, TRUE)
  ELSE LET d2 == commit([d EXCEPT !.technician_name = "name"])
       IN  CASE o.db = "not_found" \/ ~d.exists ->
                  Result(Log(st, ASSIGN, M_JOB_NOT_FOUND), d, TRUE)
             [] "technician_fields" \in sites ->
                  Result(Log(st, ASSIGN, M_DB_FAIL), rollback(d), FALSE)
             [] o.db = "commit_fails" ->
                  Result(Log(st, ASSIGN, M_DB_FAIL), rollback(d), TRUE)
             [] o.db = "broadcast_fails" ->
                  Result(Log(st, ASSIGN, M_DB_FAIL), d2, TRUE)
             [] OTHER ->
                  Result(Log([st EXCEPT !.technician_name = "name"], ASSIGN, M_ASSIGNED),
                         d2, FALSE)

----------------------------------------------------------------------------
(* Notification *)

\* attempts of the retry loop (notification_agent.py 49)
max_retries == 3

\* send_sms as the notifier defines it: the message sid, or None when the
\* provider call failed inside it
send_sms_results == {"sid", "None"}

\* "query_fails": the job or user query of lines 32 and 39, outside any try,
\* raises; broadcast: the call of line 64, outside any try
notification_agent_outcomes ==
  [job : {"found", "not_found", "query_fails"}, sms : send_sms_results,
   broadcast : {"ok", "fails"}]

\* the retry loop of lines 50-62 from `attempt` on; acc holds the log and
\* the calls made so far, raises tells whether the call of line 52 raises
RECURSIVE retry_loop(_, _, _)
retry_loop(acc, attempt, raises) ==
  IF attempt = max_retries THEN acc
  ELSE LET called == [acc EXCEPT !.effects.sms_calls = @ + 1]
       IN  IF ~raises
           THEN [called EXCEPT !.messages = Append(@, Msg(NOTIFY, M_SMS_SENT))]
           ELSE LET logged == [called EXCEPT !.messages = Append(@, Msg(NOTIFY, M_SMS_ATTEMPT))]
                    last == IF attempt = max_retries - 1
                            THEN [logged EXCEPT !.messages = Append(@, Msg(NOTIFY, M_MAX_RETRIES))]
                            ELSE logged
                IN  retry_loop([last EXCEPT !.effects.sleeps = @ + 1], attempt + 1, raises)

\* notification_agent calling send_sms once more after the retry loop
notification_agent_extra_send(st, d, o, ros, sites) ==
  IF st.technician_id = "none" \/ st.job_id = 0
  THEN Result(Log(st, NOTIFY, M_NOTIFY_SKIP), d, FALSE)
  ELSE IF o.job = "query_fails"
  THEN Raised(st, d)
  ELSE IF o.job = "not_found" \/ ~d.exists
  THEN Result(Log(st, NOTIFY, M_JOB_NOT_FOUND), d, TRUE)
  ELSE IF ros # "tech_phone"
  THEN Result(Log(st, NOTIFY, M_NO_PHONE), d, FALSE)
  ELSE LET tried == retry_loop([messages |-> st.messages, effects |-> NoEffects], 0,
                               "send_sms" \in sites)
           loop == [tried EXCEPT !.effects.sms_calls = @ + 1]
           st2 == [st EXCEPT !.messages = loop.messages]
       IN  IF o.broadcast = "fails"
           THEN [Raised(st2, d) EXCEPT !.effects = loop.effects]
           ELSE [Result(st2, d, "send_sms" \notin sites /\ o.sms = "None")
                   EXCEPT !.effects = loop.effects]

\* as written the keyword `to` of line 52 is refused on every attempt; bound
\* to to_phone the call returns, send_sms catching what the provider raises
notification_agent(st, d, o, ros, sites) ==
  IF st.technician_id = "none" \/ st.job_id = 0
  THEN Result(Log(st, NOTIFY, M_NOTIFY_SKIP), d, FALSE)
  ELSE IF o.job = "query_fails"
  THEN Raised(st, d)
  ELSE IF o.job = "not_found" \/ ~d.exists
  THEN Result(Log(st, NOTIFY, M_JOB_NOT_FOUND), d, TRUE)
  ELSE IF ros # "tech_phone"
  THEN Result(Log(st, NOTIFY, M_NO_PHONE), d, FALSE)
  ELSE LET loop == retry_loop([messages |-> st.messages, effects |-> NoEffects], 0,
                              "send_sms" \in sites)
           st2 == [st EXCEPT !.messages = loop.messages]
       IN  IF o.broadcast = "fails"
           THEN [Raised(st2, d) EXCEPT !.effects = loop.effects]
           ELSE [Result(st2, d, "send_sms" \notin sites /\ o.sms = "None")
                   EXCEPT !.effects = loop.effects]

----------------------------------------------------------------------------
(* Weather check *)

\* get_peak_sun_hours: a reading, or -1 when the call raises
weather_update_agent_outcomes == PSHValues \cup {-1}

\* the comparison with a change of exactly 5% counted as significant
changed_significantly_inclusive(current, last) ==
  IF last # 0
  THEN (IF current >= last THEN current - last ELSE last - current) * 100 >= 5 * last
  ELSE TRUE

\* abs(current - last) / last * 100 > 5, on hundredths
changed_significantly(current, last) ==
  IF last # 0
  THEN (IF current >= last THEN current - last ELSE last - current) * 100 > 5 * last
  ELSE TRUE

\* a first check that records no baseline
first_check_no_baseline(st, reading) == st

\* lines 55-57: no baseline yet, the reading becomes the baseline
first_check(st, reading) == [st EXCEPT !.last_peak_sun_hours = reading]

\* weather_update_agent without the rate limit of lines 28-35
weather_update_agent_no_limit(st, d, reading, clock) ==
  IF st.position = "none" \/ st.job_id = 0
  THEN Result(Log(st, WEATHER, M_WEATHER_SKIP), d, FALSE)
  ELSE LET fetched == [NoEffects EXCEPT !.fetches = 1, !.reading = reading]
           st2 == [st EXCEPT !.last_weather_check = clock]
       IN  IF reading = -1
           THEN [Result(Log(st, WEATHER, M_FETCH_FAIL), d, TRUE) EXCEPT !.effects = fetched]
           ELSE IF st2.last_peak_sun_hours = -1
           THEN [Result(Log(first_check(st2, reading), WEATHER, M_INITIAL),
                        d, FALSE) EXCEPT !.effects = fetched]
           ELSE IF changed_significantly(reading, st2.last_peak_sun_hours)
           THEN [Result(Log([st2 EXCEPT !.peak_sun_hours = reading,
                                        !.last_peak_sun_hours = reading],
                            WEATHER, M_TRIGGER), d, FALSE) EXCEPT !.effects = fetched]
           ELSE [Result(Log(st2, WEATHER, M_UNCHANGED), d, FALSE) EXCEPT !.effects = fetched]

weather_update_agent(st, d, reading, clock) ==
  IF st.position = "none" \/ st.job_id = 0
  THEN Result(Log(st, WEATHER, M_WEATHER_SKIP), d, FALSE)
  ELSE IF st.last_weather_check # -1 /\ clock - st.last_weather_check < WeatherInterval
  THEN Result(Log(st, WEATHER, M_TOO_SOON), d, FALSE)
  ELSE LET fetched == [NoEffects EXCEPT !.fetches = 1, !.reading = reading]
           st2 == [st EXCEPT !.last_weather_check = clock]
       IN  IF reading = -1
           THEN [Result(Log(st, WEATHER, M_FETCH_FAIL), d, TRUE) EXCEPT !.effects = fetched]
           ELSE IF st2.last_peak_sun_hours = -1
           THEN [Result(Log(first_check(st2, reading), WEATHER, M_INITIAL),
                        d, FALSE) EXCEPT !.effects = fetched]
           ELSE IF changed_significantly(reading, st2.last_peak_sun_hours)
           THEN [Result(Log([st2 EXCEPT !.peak_sun_hours = reading,
                                        !.last_peak_sun_hours = reading],
                            WEATHER, M_TRIGGER), d, FALSE) EXCEPT !.effects = fetched]
           ELSE [Result(Log(st2, WEATHER, M_UNCHANGED), d, FALSE) EXCEPT !.effects = fetched]

----------------------------------------------------------------------------
(* The engine: one node at a time, the Supervisor after every node *)

\* the node's agent has returned r, or has raised and so failed the run
Ran(r) ==
  /\ state' = r.state
  /\ db' = r.db
  /\ faults' = (faults \/ r.fault)
  /\ effects' = r.effects
  /\ executed' = Append(executed, node)
  /\ IF r.raised
     THEN pc' = "done" /\ outcome' = "raised"
     ELSE pc' = "route" /\ outcome' = outcome
  /\ UNCHANGED <<written, roster, node, ranNode, retNode, entry, store, now>>
  /\ UNCHANGED others

RunJobCreator ==
  /\ pc = "agent" /\ node = JOB_CREATOR
  /\ \E o \in job_creator_outcomes : Ran(job_creator(state, db, o))

RunSizing ==
  /\ pc = "agent" /\ node = SIZING
  /\ \E o \in sizing_agent_outcomes : Ran(sizing_agent(state, db, o, written))

RunTriage ==
  /\ pc = "agent" /\ node = TRIAGE
  /\ \E o \in ai_prediction_agent_outcomes : Ran(ai_prediction_agent(state, db, o, roster))

RunAssignment ==
  /\ pc = "agent" /\ node = ASSIGN
  /\ \E o \in technician_assignment_agent_outcomes :
        Ran(technician_assignment_agent(state, db, o, written))

RunNotification ==
  /\ pc = "agent" /\ node = NOTIFY
  /\ \E o \in notification_agent_outcomes :
        Ran(notification_agent(state, db, o, roster, written))

RunWeather ==
  /\ pc = "agent" /\ node = WEATHER
  /\ \E reading \in weather_update_agent_outcomes :
        Ran(weather_update_agent(state, db, reading, now))

\* conditional edge: call the Supervisor on the state the node left, then
\* look its answer up in the node's path map
Route ==
  /\ pc = "route"
  /\ LET ret == supervisor_agent(state)
         target == follow_edge(node, ret)
     IN  /\ retNode' = ret
         /\ ranNode' = node
         /\ state' = supervisor_state(state)
         /\ IF target = END
            THEN pc' = "done" /\ outcome' = END /\ node' = node
            ELSE IF target = "KeyError"
            THEN pc' = "done" /\ outcome' = "error" /\ node' = node
            ELSE pc' = "agent" /\ outcome' = outcome /\ node' = target
  /\ UNCHANGED <<written, roster, effects, entry, executed, faults, db, store, now>>
  /\ UNCHANGED others

----------------------------------------------------------------------------
(* Entry points *)

\* no run in flight
Idle ==
  /\ pc' = "idle"
  /\ state' = EmptyState
  /\ node' = "none"
  /\ ranNode' = "none"
  /\ retNode' = "none"
  /\ entry' = "none"
  /\ outcome' = "none"
  /\ executed' = <<>>
  /\ faults' = FALSE
  /\ effects' = NoEffects

\* POST /api/jobs/create: a fresh JobState, run from the graph's entry point
create_job ==
  /\ pc = "idle"
  /\ ~db.exists
  /\ \E d \in Descriptions, s \in SystemTypes, a \in ApplianceLists, b \in BatteryTypes :
        state' = [EmptyState EXCEPT !.description = d, !.system_type = s,
                                    !.appliances = a, !.position = "latlon",
                                    !.battery_type = b]
  /\ pc' = "agent"
  /\ node' = JOB_CREATOR
  /\ entry' = JOB_CREATOR
  /\ executed' = <<>>
  /\ faults' = FALSE
  /\ outcome' = "none"
  /\ ranNode' = "none"
  /\ retNode' = "none"
  /\ UNCHANGED <<written, roster, effects, db, store, now>>
  /\ UNCHANGED others

\* create_job after the workflow returned or raised: the final state is
\* saved only when the run did not raise and carries a job id; get_db closes
\* the session of the request
create_job_return ==
  /\ pc = "done"
  /\ entry = JOB_CREATOR
  /\ store' = IF outcome = END /\ state.job_id # 0 THEN state ELSE store
  /\ db' = rollback(db)
  /\ Idle
  /\ UNCHANGED <<written, roster, now>>
  /\ UNCHANGED others

\* run_weather_update starting from a fresh state that takes over the
\* position and the weather fields only
run_weather_update_fresh ==
  /\ pc = "idle"
  /\ db.exists /\ db.status \in {"pending", "in_progress"}
  /\ store # NoState
  /\ state' = [EmptyState EXCEPT !.position = store.position,
                                 !.last_peak_sun_hours = store.last_peak_sun_hours,
                                 !.last_weather_check = store.last_weather_check]
  /\ entry' = WEATHER
  /\ executed' = <<>>
  /\ faults' = FALSE
  /\ ranNode' = "none"
  /\ retNode' = "none"
  /\ node' = WEATHER
  /\ IF "starting_node" \in written
     THEN pc' = "done" /\ outcome' = "error"
     ELSE pc' = "agent" /\ outcome' = "none"
  /\ UNCHANGED <<written, roster, effects, db, store, now>>
  /\ UNCHANGED others

\* run_weather_update for an active job: load the stored state, reset its
\* log and enter the workflow at the weather node
run_weather_update ==
  /\ pc = "idle"
  /\ db.exists /\ db.status \in {"pending", "in_progress"}
  /\ store # NoState
  /\ state' = [store EXCEPT !.messages = <<>>]
  /\ entry' = WEATHER
  /\ executed' = <<>>
  /\ faults' = FALSE
  /\ ranNode' = "none"
  /\ retNode' = "none"
  /\ node' = WEATHER
  /\ IF "starting_node" \in written
     THEN pc' = "done" /\ outcome' = "error"
     ELSE pc' = "agent" /\ outcome' = "none"
  /\ UNCHANGED <<written, roster, effects, db, store, now>>
  /\ UNCHANGED others

\* run_weather_update after the workflow returned or raised; the finally
\* closes its session
run_weather_update_return ==
  /\ pc = "done"
  /\ entry = WEATHER
  /\ store' = IF outcome = END THEN state ELSE store
  /\ db' = rollback(db)
  /\ Idle
  /\ UNCHANGED <<written, roster, now>>
  /\ UNCHANGED others

\* lifecycle statuses update_job accepts (jobs.py 321)
valid_statuses == {"pending", "in_progress", "completed"}

\* PUT /api/jobs/{job_id}: an admin sets the record's status; the State
\* Store entry of a job that is no longer active is deleted, unless the
\* broadcast or the deletion fails
update_job ==
  /\ pc = "idle"
  /\ db.exists
  /\ \E status \in valid_statuses, deleted \in BOOLEAN :
        /\ db' = [db EXCEPT !.status = status]
        /\ store' = IF status \notin {"pending", "in_progress"} /\ deleted
                    THEN NoState ELSE store
  /\ UNCHANGED <<written, roster, effects, state, pc, node, ranNode, retNode, entry, outcome,
                 executed, faults, now>>
  /\ UNCHANGED others

\* POST /api/jobs/complete/{job_id} by the assigned technician: the
\* completion workflow marks the record completed; the State Store entry is
\* deleted when the workflow returned and the deletion worked
complete_job ==
  /\ pc = "idle"
  /\ db.exists
  /\ db.technician_id # "none"
  /\ "job_completion" \notin written
  /\ \E deleted \in BOOLEAN :
        /\ db' = [db EXCEPT !.status = "completed"]
        /\ store' = IF deleted THEN NoState ELSE store
  /\ UNCHANGED <<written, roster, effects, state, pc, node, ranNode, retNode, entry, outcome,
                 executed, faults, now>>
  /\ UNCHANGED others

\* the clock runs from the creation request on
Tick ==
  /\ pc = "idle"
  /\ db.exists
  /\ now + TickMinutes <= MaxTime
  /\ now' = now + TickMinutes
  /\ UNCHANGED <<written, roster, effects, state, pc, node, ranNode, retNode, entry, outcome,
                 executed, faults, db, store>>
  /\ UNCHANGED others

----------------------------------------------------------------------------
(* Specification of the pipeline *)

Init ==
  /\ written \in SUBSET CallSites
  /\ roster \in Rosters
  /\ state = EmptyState
  /\ pc = "idle"
  /\ node = "none"
  /\ ranNode = "none"
  /\ retNode = "none"
  /\ entry = "none"
  /\ outcome = "none"
  /\ executed = <<>>
  /\ faults = FALSE
  /\ db = NoJob
  /\ store = NoState
  /\ now = 0
  /\ effects = NoEffects
  /\ result = NoResult
  /\ JobsAtRest

Next ==
  \/ create_job
  \/ RunJobCreator
  \/ RunSizing
  \/ RunTriage
  \/ RunAssignment
  \/ RunNotification
  \/ RunWeather
  \/ Route
  \/ create_job_return
  \/ run_weather_update
  \/ run_weather_update_return
  \/ update_job
  \/ complete_job
  \/ Tick

Spec == Init /\ [][Next]_vars

----------------------------------------------------------------------------
(* Specification of the Supervisor alone: every log of at most MaxLog       *)
(* entries, every priority                                                  *)

RECURSIVE SeqsUpTo(_, _)
SeqsUpTo(S, n) ==
  IF n = 0 THEN {<<>>}
  ELSE LET shorter == SeqsUpTo(S, n - 1)
       IN  shorter \cup {Append(q, e) : q \in shorter, e \in S}

InitSupervisor ==
  /\ written = {}
  /\ roster = "none"
  /\ \E log \in SeqsUpTo(Entries, MaxLog), p \in Priorities, present \in BOOLEAN :
        /\ present \/ log = <<>>
        /\ state = [EmptyState EXCEPT !.job_id = 1, !.messages = log, !.priority = p,
                                      !.has_messages = present]
  /\ pc = "call"
  /\ node = "none"
  /\ ranNode = "none"
  /\ retNode = "none"
  /\ entry = "none"
  /\ outcome = "none"
  /\ executed = <<>>
  /\ faults = FALSE
  /\ db = NoJob
  /\ store = NoState
  /\ now = 0
  /\ effects = NoEffects
  /\ result = NoResult
  /\ JobsAtRest

\* one call of supervisor_agent; `store` keeps the state it was called on
SupervisorCall ==
  /\ pc = "call"
  /\ retNode' = supervisor_agent(state)
  /\ state' = supervisor_state(state)
  /\ store' = state
  /\ pc' = "returned"
  /\ UNCHANGED <<written, roster, effects, node, ranNode, entry, outcome, executed, faults, db, now>>
  /\ UNCHANGED others

SpecSupervisor == InitSupervisor /\ [][SupervisorCall]_vars

----------------------------------------------------------------------------
(* Specification of single agent invocations: notification_agent and        *)
(* weather_update_agent called once on a drawn state; `store` keeps the     *)
(* state the agent was called on                                            *)

\* readings and baselines, hundredths of an hour: 4.75, 5.0 and 5.25 are
\* exact in binary floating point, so that line 63 yields exactly 5 for the
\* pairs 5% apart; every other pair lies more than a tenth of a percent
\* from the threshold
Readings == {0, 470, 475, 500, 510, 525, 530}

\* last_weather_check of the drawn state (-1: never checked) and the time
\* of the call, minutes
CheckTimes == {-1, 0, 1, 15}
CallTimes == {15, 30, 45}

InitAgents ==
  /\ \/ /\ node = NOTIFY
        /\ written \in SUBSET {"send_sms"}
        /\ roster \in Rosters
        /\ db \in {NoJob, [NoJob EXCEPT !.exists = TRUE, !.status = "pending"]}
        /\ now = 0
        /\ \E j \in {0, 1}, t \in {"none", "t1"}, log \in SeqsUpTo({Msg(ASSIGN, M_ASSIGNED)}, 1) :
              state = [EmptyState EXCEPT !.job_id = j, !.technician_id = t,
                                         !.position = "latlon", !.messages = log]
     \/ /\ node = WEATHER
        /\ written = {}
        /\ roster = "none"
        /\ db = [NoJob EXCEPT !.exists = TRUE, !.status = "pending"]
        /\ now \in CallTimes
        /\ \E j \in {0, 1}, p \in {"none", "latlon"}, c \in CheckTimes,
              b \in Readings \cup {-1}, log \in SeqsUpTo({Msg(NOTIFY, M_SMS_SENT)}, 1) :
              /\ c <= now
              /\ state = [EmptyState EXCEPT !.job_id = j, !.position = p,
                                            !.last_weather_check = c,
                                            !.last_peak_sun_hours = b,
                                            !.peak_sun_hours = 500, !.messages = log]
  /\ pc = "call"
  /\ ranNode = "none"
  /\ retNode = "none"
  /\ entry = "none"
  /\ outcome = "none"
  /\ executed = <<>>
  /\ faults = FALSE
  /\ store = NoState
  /\ effects = NoEffects
  /\ result = NoResult
  /\ JobsAtRest

\* the agent called has returned r, or has raised
Called(r) ==
  /\ state' = r.state
  /\ db' = r.db
  /\ faults' = r.fault
  /\ effects' = r.effects
  /\ outcome' = IF r.raised THEN "raised" ELSE "none"
  /\ store' = state
  /\ pc' = "returned"
  /\ UNCHANGED <<written, roster, node, ranNode, retNode, entry, executed, now>>
  /\ UNCHANGED others

NotificationCall ==
  /\ pc = "call" /\ node = NOTIFY
  /\ \E o \in notification_agent_outcomes :
        Called(notification_agent(state, db, o, roster, written))

WeatherCall ==
  /\ pc = "call" /\ node = WEATHER
  /\ \E reading \in Readings \cup {-1} :
        Called(weather_update_agent(state, db, reading, now))

NextAgents ==
  \/ NotificationCall
  \/ WeatherCall

SpecAgents == InitAgents /\ [][NextAgents]_vars

----------------------------------------------------------------------------
(* Specification of the Sizing Engine alone: calculate_sizing called once   *)
(* on drawn arguments, which the fields of `state` hold                     *)

\* appliance lists of the calls; the demands of the valid ones (200, 7550
\* and 20000 Wh) lie away from a multiple of a battery string's capacity
SizingLists == {"none", "no_rating", "valid", "small", "large", "zero_quantity",
                "negative_runtime"}

InitSizing ==
  /\ \E s \in valid_system_types \cup {"grid"}, b \in valid_battery_types \cup {"nickel"},
        a \in SizingLists, p \in {"none", "latlon"} :
        state = [EmptyState EXCEPT !.system_type = s, !.battery_type = b,
                                   !.appliances = a, !.position = p]
  /\ written = {}
  /\ roster = "none"
  /\ pc = "call"
  /\ node = SIZING
  /\ ranNode = "none"
  /\ retNode = "none"
  /\ entry = "none"
  /\ outcome = "none"
  /\ executed = <<>>
  /\ faults = FALSE
  /\ db = NoJob
  /\ store = NoState
  /\ now = 0
  /\ effects = NoEffects
  /\ result = NoResult
  /\ JobsAtRest

\* one call of calculate_sizing with the weather provider answering `reading`;
\* `store` keeps the state whose fields were passed
SizingCall ==
  /\ pc = "call" /\ node = SIZING
  /\ \E reading \in PSHValues \cup {-1} :
        LET status == calculate_sizing(state.system_type, state.appliances, state.position,
                                       state.battery_type, reading)
        IN  /\ result' = IF status = "ok"
                         THEN calculate_sizing_result(state.system_type, state.appliances,
                                                      state.battery_type, reading)
                         ELSE [status |-> status]
            /\ state' = IF status \in {"ok", "raise"}
                        THEN [state EXCEPT !.appliances = list_after_sizing(@)]
                        ELSE state
  /\ pc' = "returned"
  /\ store' = state
  /\ UNCHANGED <<written, roster, node, ranNode, retNode, entry, outcome, executed,
                 faults, db, now, effects>>
  /\ UNCHANGED <<records, stores, runs>>

SpecSizing == InitSizing /\ [][SizingCall]_vars

----------------------------------------------------------------------------
(* Specification of the Triage Predictor alone *)

\* sums of battery, panel and inverter cost, thousands of KSh
EquipmentCosts == {0, 48, 250}

InitPredictor ==
  /\ \E d \in Descriptions \ {""}, s \in valid_system_types,
        b \in valid_battery_types \cup {"none"} :
        state = [EmptyState EXCEPT !.job_id = 1, !.description = d, !.system_type = s,
                                   !.battery_type = b]
  /\ written = {}
  /\ roster \in Rosters
  /\ pc = "call"
  /\ node = TRIAGE
  /\ ranNode = "none"
  /\ retNode = "none"
  /\ entry = "none"
  /\ outcome = "none"
  /\ executed = <<>>
  /\ faults = FALSE
  /\ db = NoJob
  /\ store = NoState
  /\ now = 0
  /\ effects = NoEffects
  /\ result = NoResult
  /\ JobsAtRest

\* one call of predict_job_details; `faults` tells whether a step of it failed
PredictorCall ==
  /\ pc = "call" /\ node = TRIAGE
  /\ \E cost \in EquipmentCosts, query \in {"ok", "fails"} :
        /\ result' = [status |-> "returned",
                      prediction |-> prediction_of(state.description, state.system_type,
                                                   state.battery_type, cost, roster, query)]
        /\ faults' = (query = "fails")
  /\ pc' = "returned"
  /\ UNCHANGED <<written, roster, state, node, ranNode, retNode, entry, outcome, executed,
                 db, store, now, effects>>
  /\ UNCHANGED <<records, stores, runs>>

SpecPredictor == InitPredictor /\ [][PredictorCall]_vars

----------------------------------------------------------------------------
(* Specification of several jobs: a creation request and the background     *)
(* sweep run in two threads, an admin or a technician ends jobs at any time *)

\* the variables of the single-job pipeline, left alone here
pipeline == <<written, roster, state, pc, node, ranNode, retNode, entry, outcome,
              executed, faults, db, store, now, effects, result>>

\* redis_client.setex(f"job_state:{job_id}", ...) with every job under one key
save_job_state_one_key(entries, job_id, st) ==
  IF job_id = 0 THEN entries
  ELSE [j \in JobIds |-> st]

\* redis_client.setex(f"job_state:{job_id}", ...); an empty job id is refused
save_job_state(entries, job_id, st) ==
  IF job_id = 0 THEN entries
  ELSE [entries EXCEPT ![job_id] = st]

\* redis_client.get(f"job_state:{job_id}"); NoState stands for None
get_job_state(entries, job_id) == entries[job_id]

\* redis_client.delete(f"job_state:{job_id}")
delete_job_state(entries, job_id) == [entries EXCEPT ![job_id] = NoState]

\* job_id = str(uuid.uuid4()): an id no record carries yet (0: the model has
\* none left)
new_job_id(recs) ==
  IF \A j \in JobIds : recs[j].exists THEN 0
  ELSE CHOOSE j \in JobIds : ~recs[j].exists /\ \A k \in JobIds : k < j => recs[k].exists

\* what the agent of node n can return on state st and record d when its
\* collaborators work, and when the commit of job_creator, the technician
\* query or the weather service fails
agent_results(n, st, d, ros, sites, clock) ==
  CASE n = JOB_CREATOR ->
         {job_creator(st, d, o) : o \in {"ok", "commit_fails"}}
    [] n = SIZING ->
         {sizing_agent(st, d, o, sites) :
            o \in [reading : {500}, db : {"ok"}]}
    [] n = TRIAGE ->
         {ai_prediction_agent(st, d, o, ros) :
            o \in [query : {"ok"}, db : {"ok"}]}
    [] n = ASSIGN ->
         {technician_assignment_agent(st, d, o, sites) :
            o \in [technician : {"found", "query_fails"}, db : {"ok"}]}
    [] n = NOTIFY ->
         {notification_agent(st, d, o, ros, sites) :
            o \in [job : {"found"}, sms : {"sid"}, broadcast : {"ok"}]}
    [] n = WEATHER ->
         {weather_update_agent(st, d, reading, clock) : reading \in {500, -1}}

\* the active jobs in every order the query of scheduler.py 36 can give
active_jobs(recs) ==
  LET active == {j \in JobIds : recs[j].exists /\ recs[j].status \in {"pending", "in_progress"}}
  IN  {q \in [1..Cardinality(active) -> active] :
         \A a, b \in 1..Cardinality(active) : a # b => q[a] # q[b]}

\* a sweep that ends at the first re-entry that did not complete
next_in_sweep_stopping(path) == IF path = "completed" THEN "next" ELSE "swept"

\* the for loop of scheduler.py 37-38 after run_weather_update returned:
\* nothing leaves run_weather_update, the loop goes on to the next job
next_in_sweep(path) == "next"

\* a session closed at the end of the try block only
release_on_success(closed, path) == IF path = "completed" THEN closed + 1 ELSE closed

\* finally: db.close() (weather.py 59-60), whatever the path
release(closed, path) == closed + 1

\* POST /api/jobs/create in the request thread
JobsCreate ==
  /\ runs["request"].pc = "idle"
  /\ new_job_id(records) # 0
  /\ \E d \in {D_OTHER} :
        runs' = [runs EXCEPT !["request"] =
                   [NoRun EXCEPT !.pc = "agent", !.kind = "create", !.node = JOB_CREATOR,
                                 !.state = [EmptyState EXCEPT !.description = d,
                                                              !.system_type = "hybrid",
                                                              !.appliances = "valid",
                                                              !.position = "latlon",
                                                              !.battery_type = "lithium_ion"]]]
  /\ UNCHANGED <<records, stores>>
  /\ UNCHANGED pipeline

\* the node of a run executes its agent on the record of the run's job
JobsAgent(w) ==
  /\ runs[w].pc = "agent"
  /\ LET run == runs[w]
         j == IF run.node = JOB_CREATOR THEN new_job_id(records) ELSE run.state.job_id
         d == IF j = 0 THEN NoJob ELSE records[j]
     IN  \E r \in agent_results(run.node, run.state, d, roster, written, now) :
           LET st2 == IF run.node = JOB_CREATOR /\ r.state.job_id # 0
                      THEN [r.state EXCEPT !.job_id = j]
                      ELSE r.state
           IN  /\ records' = IF j # 0 THEN [records EXCEPT ![j] = r.db] ELSE records
               /\ runs' = [runs EXCEPT ![w] =
                            [run EXCEPT !.state = st2,
                                        !.job = IF run.kind = "create" THEN st2.job_id ELSE @,
                                        !.pc = IF r.raised THEN "done" ELSE "route",
                                        !.outcome = IF r.raised THEN "raised" ELSE @]]
  /\ UNCHANGED stores
  /\ UNCHANGED pipeline

\* the conditional edge of a run
JobsRoute(w) ==
  /\ runs[w].pc = "route"
  /\ LET run == runs[w]
         target == follow_edge(run.node, supervisor_agent(run.state))
     IN  runs' = [runs EXCEPT ![w] =
                    [run EXCEPT !.state = supervisor_state(run.state),
                                !.pc = IF target \in {END, "KeyError"} THEN "done" ELSE "agent",
                                !.outcome = IF target = END THEN END
                                            ELSE IF target = "KeyError" THEN "error" ELSE @,
                                !.node = IF target \in {END, "KeyError"} THEN @ ELSE target]]
  /\ UNCHANGED <<records, stores>>
  /\ UNCHANGED pipeline

\* create_job after the workflow returned or raised
JobsCreateReturn ==
  /\ runs["request"].pc = "done"
  /\ runs["request"].kind = "create"
  /\ LET run == runs["request"]
     IN  stores' = IF run.outcome = END /\ run.state.job_id # 0
                   THEN save_job_state(stores, run.state.job_id, run.state)
                   ELSE stores
  /\ runs' = [runs EXCEPT !["request"] = NoRun]
  /\ UNCHANGED records
  /\ UNCHANGED pipeline

\* run_weather_update_task: query the active jobs (scheduler.py 36)
SweepStart ==
  /\ runs["scheduler"].pc = "idle"
  /\ \E q \in active_jobs(records) :
        /\ q # <<>>
        /\ runs' = [runs EXCEPT !["scheduler"] =
                      [NoRun EXCEPT !.pc = "next", !.kind = "sweep", !.queue = q, !.i = 1]]
  /\ UNCHANGED <<records, stores>>
  /\ UNCHANGED pipeline

\* run_weather_update(job.id): db = SessionLocal() (weather.py 28)
ReentryOpen ==
  /\ runs["scheduler"].pc = "next"
  /\ runs["scheduler"].i <= Len(runs["scheduler"].queue)
  /\ LET run == runs["scheduler"]
     IN  runs' = [runs EXCEPT !["scheduler"] =
                    [run EXCEPT !.pc = "load", !.job = run.queue[run.i], !.opened = @ + 1,
                                !.state = EmptyState, !.node = "none", !.outcome = "none",
                                !.path = "none"]]
  /\ UNCHANGED <<records, stores>>
  /\ UNCHANGED pipeline

\* weather.py 33-48: load the stored state, reset its log, invoke the
\* workflow; as written the invoke call is refused for its starting_node
ReentryLoad ==
  /\ runs["scheduler"].pc = "load"
  /\ \E res \in {"ok", "error"} :
        LET run == runs["scheduler"]
            found == get_job_state(stores, run.job)
        IN  runs' = [runs EXCEPT !["scheduler"] =
                       IF res = "error"
                       THEN [run EXCEPT !.pc = "close", !.path = "load_error"]
                       ELSE IF found = NoState
                       THEN [run EXCEPT !.pc = "close", !.path = "no_state"]
                       ELSE IF "starting_node" \in written
                       THEN [run EXCEPT !.pc = "close", !.path = "workflow_error"]
                       ELSE [run EXCEPT !.pc = "agent", !.node = WEATHER,
                                        !.state = [found EXCEPT !.messages = <<>>]]]
  /\ UNCHANGED <<records, stores>>
  /\ UNCHANGED pipeline

\* weather.py 50-58: save the final state, or log what the workflow raised
ReentrySave ==
  /\ runs["scheduler"].pc = "done"
  /\ runs["scheduler"].kind = "sweep"
  /\ LET run == runs["scheduler"]
     IN  IF run.outcome = END
         THEN \E saved \in BOOLEAN :
                /\ stores' = IF saved THEN save_job_state(stores, run.job, run.state)
                             ELSE stores
                /\ runs' = [runs EXCEPT !["scheduler"] =
                              [run EXCEPT !.pc = "close",
                                          !.path = IF saved THEN "completed" ELSE "save_error"]]
         ELSE /\ stores' = stores
              /\ runs' = [runs EXCEPT !["scheduler"] =
                            [run EXCEPT !.pc = "close", !.path = "workflow_error"]]
  /\ UNCHANGED records
  /\ UNCHANGED pipeline

\* weather.py 59-60 and the return to the loop of scheduler.py 37
ReentryClose ==
  /\ runs["scheduler"].pc = "close"
  /\ LET run == runs["scheduler"]
     IN  runs' = [runs EXCEPT !["scheduler"] =
                    [run EXCEPT !.closed = release(@, run.path),
                                !.ended = Append(@, run.job),
                                !.paths = Append(@, run.path),
                                !.i = @ + 1,
                                !.pc = next_in_sweep(run.path)]]
  /\ UNCHANGED <<records, stores>>
  /\ UNCHANGED pipeline

\* the loop is exhausted: run_weather_update_task returns
SweepReturn ==
  /\ runs["scheduler"].pc = "next"
  /\ runs["scheduler"].i > Len(runs["scheduler"].queue)
  /\ runs' = [runs EXCEPT !["scheduler"] = [@ EXCEPT !.pc = "swept"]]
  /\ UNCHANGED <<records, stores>>
  /\ UNCHANGED pipeline

\* the scheduler thread waits for the next interval
SweepRest ==
  /\ runs["scheduler"].pc = "swept"
  /\ runs' = [runs EXCEPT !["scheduler"] = NoRun]
  /\ UNCHANGED <<records, stores>>
  /\ UNCHANGED pipeline

\* PUT /api/jobs/{job_id}, whatever the threads are doing
JobsUpdate(j) ==
  /\ records[j].exists
  /\ \E status \in {"in_progress", "completed"}, deleted \in BOOLEAN :
        /\ records' = [records EXCEPT ![j].status = status]
        /\ stores' = IF status \notin {"pending", "in_progress"} /\ deleted
                     THEN delete_job_state(stores, j) ELSE stores
  /\ UNCHANGED runs
  /\ UNCHANGED pipeline

\* POST /api/jobs/complete/{job_id}, whatever the threads are doing
JobsComplete(j) ==
  /\ records[j].exists
  /\ records[j].technician_id # "none"
  /\ "job_completion" \notin written
  /\ \E deleted \in BOOLEAN :
        /\ records' = [records EXCEPT ![j].status = "completed"]
        /\ stores' = IF deleted THEN delete_job_state(stores, j) ELSE stores
  /\ UNCHANGED runs
  /\ UNCHANGED pipeline

InitJobs ==
  /\ written \in {CallSites, {}}
  /\ roster = "tech_phone"
  /\ state = EmptyState
  /\ pc = "idle"
  /\ node = "none"
  /\ ranNode = "none"
  /\ retNode = "none"
  /\ entry = "none"
  /\ outcome = "none"
  /\ executed = <<>>
  /\ faults = FALSE
  /\ db = NoJob
  /\ store = NoState
  /\ now = 0
  /\ effects = NoEffects
  /\ result = NoResult
  /\ JobsAtRest

NextJobs ==
  \/ JobsCreate
  \/ \E w \in Workers : JobsAgent(w)
  \/ \E w \in Workers : JobsRoute(w)
  \/ JobsCreateReturn
  \/ SweepStart
  \/ ReentryOpen
  \/ ReentryLoad
  \/ ReentrySave
  \/ ReentryClose
  \/ SweepReturn
  \/ SweepRest
  \/ \E j \in JobIds : JobsUpdate(j)
  \/ \E j \in JobIds : JobsComplete(j)

SpecJobs == InitJobs /\ [][NextJobs]_vars

----------------------------------------------------------------------------
(* Claims about the Supervisor, checked under SpecSupervisor; `store` is    *)
(* the state the Supervisor was called on                                  *)

LastEntry(messages) == messages[Len(messages)]

\* C1: for every non-empty log that holds an entry with the re-sizing trigger
\* phrase, supervisor_agent returns sizing_agent, whatever the last entry and
\* the priority are.
C1_TriggerRoutesToSizing ==
  (pc = "returned" /\ store.messages # <<>> /\ HasPhrase(store.messages, P_TRIGGER))
    => retNode = SIZING

C1_Witness ==
  /\ pc = "returned"
  /\ Len(store.messages) = 2
  /\ store.messages[1] = Msg(WEATHER, M_TRIGGER)
  /\ store.messages[2] = Msg(NOTIFY, M_MAX_RETRIES)
  /\ store.priority = "high"
  /\ retNode = SIZING

\* the fixed table of the last-entry rule
C2_Table(e) ==
  CASE e = Msg(JOB_CREATOR, M_CREATED) -> SIZING
    [] e = Msg(SIZING, M_SIZED) -> TRIAGE
    [] e = Msg(TRIAGE, M_TRIAGED) -> ASSIGN
    [] e = Msg(ASSIGN, M_ASSIGNED) -> NOTIFY
    [] e = Msg(NOTIFY, M_SMS_SENT) -> WEATHER
    [] e = Msg(NOTIFY, M_MAX_RETRIES) -> WEATHER
    [] OTHER -> END

\* C2: on a non-empty log without a trigger entry, unless priority is high and
\* no 'SMS sent' entry exists, the result is a function of the last entry alone
\* and equals the fixed table (every other last entry gives END).
C2_LastEntryTable ==
  (/\ pc = "returned"
   /\ store.messages # <<>>
   /\ ~HasPhrase(store.messages, P_TRIGGER)
   /\ ~(store.priority = "high" /\ ~HasPhrase(store.messages, P_SMS_SENT)))
    => retNode = C2_Table(LastEntry(store.messages))

\* C3: on a non-empty log without a trigger entry, priority high and no
\* 'SMS sent' entry anywhere give notification_agent, whatever the last entry.
C3_UrgentRoutesToNotification ==
  (/\ pc = "returned"
   /\ store.messages # <<>>
   /\ ~HasPhrase(store.messages, P_TRIGGER)
   /\ store.priority = "high"
   /\ ~HasPhrase(store.messages, P_SMS_SENT))
    => retNode = NOTIFY

C3_Witness ==
  /\ pc = "returned"
  /\ store.priority = "high"
  /\ store.messages = <<Msg(JOB_CREATOR, M_CREATED), Msg(SIZING, M_SIZED)>>
  /\ retNode = NOTIFY

----------------------------------------------------------------------------
(* Claims about a run of the workflow, checked under Spec                  *)

\* positions of node n in the order of execution
Positions(n) == {i \in 1..Len(executed) : executed[i] = n}

\* the request of the run is valid and its description is not an urgent one
ValidRequest ==
  /\ state.description \in Descriptions \ {""}
  /\ state.system_type \in valid_system_types
  /\ state.appliances = "valid"
  /\ state.battery_type \in valid_battery_types
  /\ state.description # D_OFFLINE

\* the six success entries of a run in which the peak sun hours are read for
\* the first time
SuccessLog ==
  <<Msg(JOB_CREATOR, M_CREATED), Msg(SIZING, M_SIZED), Msg(TRIAGE, M_TRIAGED),
    Msg(ASSIGN, M_ASSIGNED), Msg(NOTIFY, M_SMS_SENT), Msg(WEATHER, M_INITIAL)>>

\* C4: when the Supervisor returns a node for which the node just executed
\* declares no edge, the run ends as TERMINAL: it does not fail with an error.
C4_UndeclaredEndsTerminal ==
  (/\ pc = "done"
   /\ ranNode \in Nodes
   /\ retNode # END
   /\ retNode \notin Edges[ranNode])
    => outcome = END

C6_HappyPath ==
  (/\ pc = "done"
   /\ entry = JOB_CREATOR
   /\ ValidRequest
   /\ roster = "tech_phone"
   /\ ~faults)
    => /\ executed = <<JOB_CREATOR, SIZING, TRIAGE, ASSIGN, NOTIFY, WEATHER>>
       /\ state.messages = SuccessLog
       /\ outcome = END

SuccessMessages ==
  {M_CREATED, M_SIZED, M_TRIAGED, M_ASSIGNED, M_SMS_SENT, M_INITIAL,
   M_TRIGGER, M_UNCHANGED}

\* a skip or failure entry other than the retries-exhausted one
SkipOrFailure(e) == e.message \notin SuccessMessages \cup {M_MAX_RETRIES}

\* C9: after an agent invocation whose last entry is a skip or failure entry
\* other than the retries-exhausted one, no further agent is executed in that
\* invocation: the engine does not dispatch another node.
C9_FailureEndsRun ==
  (/\ pc \in {"agent", "done"}
   /\ ranNode \in Nodes
   /\ SkipOrFailure(LastEntry(state.messages)))
    => pc = "done"

\* C10: within one invocation every node other than Sizing is executed at most
\* once; Sizing is executed twice only when the log holds the re-sizing
\* trigger entry of the weather loop.
C10_AtMostOnce ==
  \A i, j \in 1..Len(executed) :
    (i < j /\ executed[i] = executed[j])
      => (executed[i] = SIZING /\ HasPhrase(state.messages, P_TRIGGER))

C10_Witness ==
  /\ pc = "done"
  /\ executed = <<JOB_CREATOR, SIZING, TRIAGE, ASSIGN, NOTIFY, WEATHER>>
  /\ outcome = END

\* C11: supervisor_agent is total: on every job state it returns a node name
\* or END without raising, and it returns END when the log is empty or absent
\* and when the last entry matches no table row.
C11_SupervisorTotal ==
  pc = "returned" =>
    /\ retNode \in Nodes \cup {END}
    /\ (store.messages = <<>> => retNode = END)

\* C12: a call of supervisor_agent leaves the event log and every other
\* job-state field as they were before the call, on every branch.
C12_SupervisorPure ==
  pc = "returned" => state = store

----------------------------------------------------------------------------
(* Claims about the agents, checked under Spec                             *)

\* C13: no exception leaves an agent: whenever a collaborator call of one of
\* the six agents fails, the agent still returns a job state, so no run ends
\* with an agent's exception.
C13_NoExceptionEscapes ==
  outcome # "raised"

\* the entries with which an agent reports a failure: a persistence failure,
\* a record that was not found, a collaborator's exception
FailureMessages ==
  {M_CREATE_FAIL, M_CREATE_FAIL_SQL, M_SIZING_CALC_FAIL, M_JOB_NOT_FOUND, M_DB_FAIL,
   M_TRIAGE_FAIL, M_TRIAGE_KEYS, M_TECH_NOT_FOUND, M_FETCH_FAIL}

\* an agent invocation: the step from the dispatched node to the Supervisor
AgentStep == pc = "agent" /\ pc' = "route"

\* C14: when an agent ends its invocation with a failure entry, every
\* job-state field other than the event log has the value it had when the
\* agent was invoked.
C14_FailureLeavesState ==
  [][(AgentStep /\ LastEntry(state'.messages).message \in FailureMessages)
       => [state' EXCEPT !.messages = state.messages] = state]_vars

\* the fields an agent validates before anything else
MissingRequired(n, st) ==
  CASE n = JOB_CREATOR -> st.description = "" \/ st.system_type = ""
    [] n = SIZING -> st.system_type = "" \/ st.appliances = "none"
                     \/ st.position = "none" \/ st.job_id = 0
    [] n = TRIAGE -> st.description = "" \/ st.system_type = "" \/ st.job_id = 0
    [] n = ASSIGN -> st.technician_id = "none" \/ st.job_id = 0
    [] n = NOTIFY -> st.technician_id = "none" \/ st.job_id = 0
    [] n = WEATHER -> st.position = "none" \/ st.job_id = 0

SkipMessages ==
  {M_CREATE_SKIP, M_SIZING_SKIP, M_TRIAGE_SKIP, M_ASSIGN_SKIP, M_NOTIFY_SKIP,
   M_WEATHER_SKIP}

\* C15: an agent invoked with a required input field missing appends one log
\* entry, changes no other job-state field and writes no job record.
C15_SkipIsNoOp ==
  [][(pc = "agent" /\ MissingRequired(node, state))
       => /\ pc' = "route"
          /\ \E m \in SkipMessages : state' = Log(state, node, m)
          /\ db' = db
          /\ faults' = faults]_vars

C15_Witness ==
  /\ pc = "route"
  /\ node = ASSIGN
  /\ state.technician_id = "none"
  /\ LastEntry(state.messages) = Msg(ASSIGN, M_ASSIGN_SKIP)

IsPrefix(a, b) == Len(a) <= Len(b) /\ SubSeq(b, 1, Len(a)) = a

\* C16: within a run the event log is append-only: over every agent
\* invocation and every Supervisor call the log before the step is a prefix
\* of the log after it.
C16_LogAppendOnly ==
  [][(pc \in {"agent", "route"})
       => IsPrefix(state.messages, state'.messages)]_vars

C16_Witness ==
  /\ pc = "route"
  /\ node = NOTIFY
  /\ Len(state.messages) = 8
  /\ state.messages[4] = Msg(ASSIGN, M_ASSIGNED)
  /\ LastEntry(state.messages) = Msg(NOTIFY, M_MAX_RETRIES)

\* C17: every agent invocation that returns control has appended exactly one
\* entry to the event log, on every path through every agent.
C17_ExactlyOneEntry ==
  [][AgentStep => Len(state'.messages) = Len(state.messages) + 1]_vars

\* C18: after a successful job-creation invocation the state carries a job
\* id and the status pending, and a job record with that id and the status
\* pending exists; the state never carries a job id without a committed record.
C18_JobIdHasRecord ==
  /\ state.job_id # 0 => db.exists
  /\ (pc = "route" /\ node = JOB_CREATOR
        /\ LastEntry(state.messages) = Msg(JOB_CREATOR, M_CREATED))
       => /\ state.job_id # 0
          /\ state.status = "pending"
          /\ db.exists
          /\ db.status = "pending"

C18_Witness ==
  /\ pc = "route"
  /\ node = JOB_CREATOR
  /\ LastEntry(state.messages) = Msg(JOB_CREATOR, M_CREATED)
  /\ state.job_id = 1
  /\ db.status = "pending"

\* C19: once job creation has assigned job_id, no agent invocation and no
\* Supervisor call of the run changes it, and a weather re-entry run starts
\* with the job_id of the stored state.
C19_JobIdImmutable ==
  [][/\ (state.job_id # 0 /\ pc \in {"agent", "route"})
          => state'.job_id = state.job_id
     /\ (pc = "idle" /\ entry' = WEATHER)
          => (state'.job_id = store.job_id /\ state'.job_id # 0)]_vars

C19_Witness ==
  /\ entry = WEATHER
  /\ pc = "route"
  /\ executed = <<WEATHER, SIZING>>
  /\ state.job_id = 1
  /\ store.job_id = 1

StatusRank(status) ==
  CASE status = "pending" -> 1
    [] status = "in_progress" -> 2
    [] status = "completed" -> 3
    [] OTHER -> 0

\* C20: a job record's status only moves forward along pending ->
\* in_progress -> completed: no pipeline step, update_job or complete_job
\* changes it to an earlier value.
C20_StatusMonotonic ==
  [][(db.exists /\ db'.exists)
       => StatusRank(db'.status) >= StatusRank(db.status)]_vars

----------------------------------------------------------------------------
(* Claims about one agent invocation, checked under SpecAgents; `store` is  *)
(* the state the agent was called on                                        *)

\* the entries the invocation appended
NewEntries == SubSeq(state.messages, Len(store.messages) + 1, Len(state.messages))

\* C21: one Notification invocation calls the notifier at most 3 times,
\* waits the inter-attempt delay at most 3 times, and a successful send is
\* the last call it makes: the "SMS sent" entry is the last entry appended
\* and every call up to it is accounted for by an entry.
C21_BoundedRetries ==
  (pc = "returned" /\ node = NOTIFY) =>
    /\ effects.sms_calls <= 3
    /\ effects.sleeps <= 3
    /\ \A i \in 1..Len(NewEntries) :
          Contains(NewEntries[i].message, P_SMS_SENT) =>
            (i = Len(NewEntries) /\ effects.sms_calls = i)

\* every attempt failed: three calls, three waits
C21_Witness ==
  /\ pc = "returned" /\ node = NOTIFY
  /\ effects.sms_calls = 3 /\ effects.sleeps = 3
  /\ LastEntry(state.messages) = Msg(NOTIFY, M_MAX_RETRIES)

\* C22: a Weather-check invoked less than 30 minutes after the state's
\* last_weather_check does not fetch weather, appends one skip entry and
\* leaves last_weather_check, last_peak_sun_hours and peak_sun_hours as
\* they were.
C22_TooSoonIsNoOp ==
  (/\ pc = "returned" /\ node = WEATHER
   /\ store.last_weather_check # -1
   /\ now - store.last_weather_check < 30) =>
    /\ effects.fetches = 0
    /\ Len(NewEntries) = 1
    /\ NewEntries[1] \in {Msg(WEATHER, M_TOO_SOON), Msg(WEATHER, M_WEATHER_SKIP)}
    /\ state.last_weather_check = store.last_weather_check
    /\ state.last_peak_sun_hours = store.last_peak_sun_hours
    /\ state.peak_sun_hours = store.peak_sun_hours

\* a check 29 minutes after the last one, skipped as too soon
C22_Witness ==
  /\ pc = "returned" /\ node = WEATHER
  /\ store.last_weather_check = 1 /\ now = 30
  /\ NewEntries = <<Msg(WEATHER, M_TOO_SOON)>>

\* C23: when a Weather-check fetches a reading and a non-zero baseline
\* exists, the re-sizing trigger entry is logged, and peak_sun_hours and
\* last_peak_sun_hours are set to the reading, if and only if the absolute
\* change relative to the baseline is strictly greater than 5%; otherwise
\* both fields stay as they were.
C23_TriggerThreshold ==
  (/\ pc = "returned" /\ node = WEATHER
   /\ effects.reading # -1
   /\ store.last_peak_sun_hours \notin {-1, 0}) =>
    LET baseline == store.last_peak_sun_hours
        reading == effects.reading
        change == IF reading >= baseline THEN reading - baseline ELSE baseline - reading
        triggered == Msg(WEATHER, M_TRIGGER) \in {NewEntries[i] : i \in 1..Len(NewEntries)}
    IN  /\ triggered <=> (change * 100 > 5 * baseline)
        /\ triggered => (state.peak_sun_hours = reading /\ state.last_peak_sun_hours = reading)
        /\ ~triggered => (/\ state.peak_sun_hours = store.peak_sun_hours
                          /\ state.last_peak_sun_hours = store.last_peak_sun_hours)

\* 5.0 -> 5.25, a change of exactly 5%, logged as unchanged
C23_Witness ==
  /\ pc = "returned" /\ node = WEATHER
  /\ store.last_peak_sun_hours = 500 /\ effects.reading = 525
  /\ NewEntries = <<Msg(WEATHER, M_UNCHANGED)>>
  /\ state.last_peak_sun_hours = 500

----------------------------------------------------------------------------
(* Claims about the weather re-entry and the change broadcast, checked      *)
(* under Spec                                                               *)

\* C24: a weather re-entry for a job that has a stored Job State executes
\* the Weather-check node first and never job-creation; when its run has
\* ended, the nodes it executed start with weather_update_agent.
C24_ReentryStartsAtWeather ==
  (entry = WEATHER /\ pc = "done") =>
    /\ Len(executed) >= 1
    /\ executed[1] = WEATHER
    /\ \A i \in 1..Len(executed) : executed[i] # JOB_CREATOR

\* C29: when job-creation, Sizing, Triage or Technician-assignment has
\* committed its change of the job record, the agent logs its success entry
\* whether or not the change broadcast that follows the commit fails.
C29_BroadcastBestEffort ==
  [][(AgentStep /\ node \in {JOB_CREATOR, SIZING, TRIAGE, ASSIGN}
        /\ rollback(db') # rollback(db)) =>
       LastEntry(state'.messages).message \in {M_CREATED, M_SIZED, M_TRIAGED, M_ASSIGNED}]_vars

----------------------------------------------------------------------------
(* Claims about the Sizing Engine, checked under SpecSizing                 *)

\* C30: for system_type 'pure' the sizing result has battery_capacity_kwh,
\* battery_cost_ksh and every battery count (required, series, parallel, of
\* both chemistries) equal to 0, for either battery_type and every valid
\* appliance list.
C30_PureHasNoBatteries ==
  (pc = "returned" /\ result.status = "ok" /\ state.system_type = "pure") =>
    /\ result.battery_capacity_wh = 0
    /\ result.battery_cost_ksh = 0
    /\ result.lead_acid_batteries_required = 0
    /\ result.lead_acid_batteries_series = 0
    /\ result.lead_acid_batteries_parallel = 0
    /\ result.lithium_ion_batteries_required = 0
    /\ result.lithium_ion_batteries_series = 0
    /\ result.lithium_ion_batteries_parallel = 0

\* a pure system sized for a demand of 20 kWh with lithium-ion chosen
C30_Witness ==
  /\ pc = "returned" /\ result.status = "ok"
  /\ state.system_type = "pure" /\ state.battery_type = "lithium_ion"
  /\ result.load_demand_wh = 20000
  /\ result.battery_capacity_wh = 0

----------------------------------------------------------------------------
(* Claims about several jobs, the State Store and the background sweep *)

\* C25: once a job record is completed and update_job or complete_job has
\* returned, the State Store holds no Job State for that job, whatever a
\* sweep or a creation request for the same job does meanwhile
C25_CompletedHasNoState ==
  \A j \in JobIds : records[j].status = "completed" => stores[j] = NoState

\* the job a step of thread w is taken for
StepJob(w) == IF runs'[w].job # 0 THEN runs'[w].job ELSE runs[w].job

\* the jobs whose record or State Store entry a step changes
Touched == {j \in JobIds : records'[j] # records[j] \/ stores'[j] # stores[j]}

\* C26: a step taken for one job (an agent, a Supervisor call, a State Store
\* save, load or delete) leaves every other job's Job State in flight, job
\* record and State Store entry unchanged
C26_JobsIndependent ==
  [][/\ \A w \in Workers :
          runs'[w] # runs[w] =>
            /\ \A v \in Workers \ {w} : runs'[v] = runs[v]
            /\ Touched \subseteq {StepJob(w)}
     /\ runs' = runs => Cardinality(Touched) <= 1]_vars

\* the sweep has saved job 1's state while the request of job 2 is in flight
C26_Witness ==
  /\ runs["scheduler"].job = 1
  /\ runs["scheduler"].pc = "close"
  /\ runs["scheduler"].path = "completed"
  /\ runs["request"].job = 2
  /\ runs["request"].pc = "route"
  /\ stores[1] # NoState
  /\ stores[2] = NoState

\* C27: a re-entry that fails (no stored state, State Store error, workflow
\* error) does not stop the sweep: when the sweep returns, every active job
\* of the iteration has had its re-entry
C27_SweepContinues ==
  runs["scheduler"].pc = "swept" => runs["scheduler"].ended = runs["scheduler"].queue

\* a sweep over two jobs has returned after the first re-entry failed
C27_Witness ==
  /\ runs["scheduler"].pc = "swept"
  /\ Len(runs["scheduler"].queue) = 2
  /\ runs["scheduler"].paths[1] \in {"no_state", "load_error", "workflow_error", "save_error"}
  /\ runs["scheduler"].ended = runs["scheduler"].queue

\* C28: every re-entry opens its own session and closes it on every path:
\* one session is open while a re-entry runs, none once it has returned
C28_SessionReleased ==
  LET run == runs["scheduler"]
  IN  /\ run.pc \in {"load", "close"} => run.opened = run.closed + 1
      /\ (run.kind = "sweep" /\ run.pc \in {"agent", "route", "done"})
            => run.opened = run.closed + 1
      /\ run.pc \in {"idle", "next", "swept"} => run.opened = run.closed
      /\ run.opened = Len(run.paths) + (IF run.pc \in {"idle", "next", "swept"} THEN 0 ELSE 1)

\* a sweep has returned from a re-entry that hit an error and from one that
\* found no stored state, both sessions closed
C28_Witness ==
  /\ runs["scheduler"].pc = "swept"
  /\ runs["scheduler"].paths \in {<<"workflow_error", "no_state">>, <<"no_state", "load_error">>}
  /\ runs["scheduler"].opened = 2
  /\ runs["scheduler"].closed = 2

----------------------------------------------------------------------------
(* Claims about appliance lists *)

\* an entry the Sizing Engine has to refuse
invalid_entry(appliance) ==
  \/ appliance.quantity <= 0
  \/ appliance.runtime_hrs <= 0
  \/ /\ appliance.power_w = -1
     /\ appliance.name \notin DOMAIN DEFAULT_APPLIANCE_POWER_RATINGS

\* C31: calculate_sizing computes no result for an appliance list with an
\* entry whose quantity or runtime_hrs is not positive, or that has neither
\* power_w nor a default rating: it reports a validation error
C31_InvalidEntryRejected ==
  (/\ pc = "returned" /\ node = SIZING
   /\ \E i \in DOMAIN appliance_entries(store.appliances) :
         invalid_entry(appliance_entries(store.appliances)[i]))
    => result.status = "ValueError"

----------------------------------------------------------------------------
(* Claims about the Triage Predictor, checked under SpecPredictor *)

\* C33: predict_job_details never propagates an internal failure: when a
\* step of it fails it returns the fixed fallback prediction (medium, 4
\* hours, labor 4000, transport 800, no technician)
C33_FallbackOnFailure ==
  (pc = "returned" /\ node = TRIAGE /\ faults) =>
    /\ result.status = "returned"
    /\ result.prediction.priority = "medium"
    /\ result.prediction.duration_hours = 400
    /\ result.prediction.labor_ksh = 4000
    /\ result.prediction.transport_ksh = 800
    /\ result.prediction.technician_id = "none"

\* the roster query failed for an offline hybrid job with a roster at hand
C33_Witness ==
  /\ pc = "returned" /\ node = TRIAGE /\ faults
  /\ state.description = D_OFFLINE /\ state.system_type = "hybrid"
  /\ roster = "tech_phone"
  /\ result.prediction = FallbackPrediction

----------------------------------------------------------------------------
(* Claims about a weather re-entry that re-sizes *)

----------------------------------------------------------------------------
(* Claims about partial failure and the persistence layer *)

\* C35: when an agent ends its invocation with a failure entry, the job
\* record and the Prediction Records of the persistence layer are what they
\* were before the invocation
C35_FailureLeavesRecord ==
  [][(AgentStep /\ LastEntry(state'.messages).message \in FailureMessages)
       => rollback(db') = rollback(db)]_vars

C38_LastEntryIsOwn ==
  [][AgentStep => /\ Len(state'.messages) > Len(state.messages)
                  /\ LastEntry(state'.messages).agent = node]_vars

\* Sizing skipped for missing fields and the Supervisor is about to read the
\* entry it appended
C38_Witness ==
  /\ pc = "route" /\ node = SIZING
  /\ Len(executed) >= 2
  /\ LastEntry(state.messages) = Msg(SIZING, M_SIZING_SKIP)

\* C39: a Weather-check that fetched a reading within 5% of a non-zero
\* baseline sets last_weather_check to the time of the check and leaves
\* last_peak_sun_hours and peak_sun_hours as they were; a first check, with
\* no baseline, makes the reading the baseline and logs no trigger phrase;
\* and an existing baseline changes only together with the trigger entry
C39_BaselineMovesOnTrigger ==
  (pc = "returned" /\ node = WEATHER /\ effects.reading # -1) =>
    LET baseline == store.last_peak_sun_hours
        reading == effects.reading
        change == IF reading >= baseline THEN reading - baseline ELSE baseline - reading
    IN  /\ (baseline \notin {-1, 0} /\ change * 100 <= 5 * baseline) =>
              /\ state.last_weather_check = now
              /\ state.last_peak_sun_hours = baseline
              /\ state.peak_sun_hours = store.peak_sun_hours
              /\ ~HasPhrase(NewEntries, P_TRIGGER)
        /\ baseline = -1 =>
              /\ state.last_weather_check = now
              /\ state.last_peak_sun_hours = reading
              /\ ~HasPhrase(NewEntries, P_TRIGGER)
        /\ (baseline # -1 /\ state.last_peak_sun_hours # baseline) =>
              HasPhrase(NewEntries, P_TRIGGER)

\* a drift of 2% checked half an hour after the last check: the time of the
\* check is recorded, the baseline stays
C39_Witness ==
  /\ pc = "returned" /\ node = WEATHER
  /\ store.last_peak_sun_hours = 500 /\ effects.reading = 510
  /\ store.last_weather_check = 0 /\ now = 30
  /\ state.last_weather_check = 30
  /\ state.last_peak_sun_hours = 500

\* a first check: the reading has become the baseline
C39_FirstCheck ==
  /\ pc = "returned" /\ node = WEATHER
  /\ store.last_peak_sun_hours = -1 /\ effects.reading = 510
  /\ state.last_peak_sun_hours = 510
  /\ NewEntries = <<Msg(WEATHER, M_INITIAL)>>

----------------------------------------------------------------------------
(* Termination of a run *)

\* one step of the engine: the current node's agent, or the Supervisor and
\* the conditional edge after it
EngineStep ==
  \/ RunJobCreator
  \/ RunSizing
  \/ RunTriage
  \/ RunAssignment
  \/ RunNotification
  \/ RunWeather
  \/ Route

\* the program with its call sites as written, and with every one of them
\* bound to its callee
InitLive == Init /\ written \in {CallSites, {}}

\* the engine runs a started invocation without waiting for anything: a step
\* that can be taken is taken
SpecLive == InitLive /\ [][Next]_vars /\ WF_vars(EngineStep)

\* the longest chain of nodes a run can execute: each node once and Sizing a
\* second time after Weather-check
MaxExecutions == Cardinality(Nodes) + 1

C40_UrgentEnded ==
  /\ pc = "done" /\ entry = JOB_CREATOR
  /\ state.priority = "high"
  /\ ~HasPhrase(state.messages, P_SMS_SENT)
  /\ retNode = NOTIFY
  /\ outcome = "error"

====
